---- MODULE Spec2Model ----
(***************************************************************************)
(* Chunked preprocessing pipeline of src/data/preprocessing/preprocess.py: *)
(* the phases phase_delete_columns .. phase_validate_clean and the chunk   *)
(* driver process_chunks, as a state machine over one run.                 *)
(*                                                                         *)
(* A DataFrame is the record                                               *)
(*   [columns : Seq(Name), dtypes : Seq(STRING), index : Seq(Nat),         *)
(*    rows : Seq(Seq(Value))]                                              *)
(* with rows positional (rows[r][c] is the cell of column columns[c]) and  *)
(* index the pandas row labels.  A column name is the sequence of its      *)
(* characters.  A timestamp cell read from the CSV is the text of the      *)
(* cell, [ok, y, m, d, h, mi, s]: ok = FALSE is text that is no timestamp. *)
(* A parsed timestamp is [nat, sec]: NaT, or seconds since 1970-01-01.     *)
(* Floats are fixed-point integers in units of 10^-7.  A cell of an int64  *)
(* column is [q, r], the integer q * 2^31 + r with 0 <= r < 2^31 (TLC      *)
(* computes with 32-bit integers); cells of narrower integer columns are   *)
(* integers.  Input files hold at least one record.                        *)
(*                                                                         *)
(* main of preprocess.py runs process_chunks and then the comparison and   *)
(* the report.  The Type Mapper of src/data/preprocessing/analyze.py,      *)
(* get_sql_server_type and get_ssis_data_type, is applied to one column    *)
(* description per behaviour of the specification SpecMapper.              *)
(* analyze_column_characteristics of analyze.py is applied to one column   *)
(* per behaviour of SpecCharacterizer, and one of the phases               *)
(* phase_sql_data_types, phase_standardize_columns, phase_validate_clean   *)
(* to one window of its own per behaviour of SpecPhase.                    *)
(***************************************************************************)
EXTENDS Integers, Sequences, FiniteSets, TLC

\* process_chunks
VARIABLES pc, input_exists, input_file, output_before, output_file,
          chunk_size, date_cutoff, reader_pos, chunk_num, chunk,
          initial_rows, first_chunk, stats, result

\* main of preprocess.py: what it returns and whether the report file exists
VARIABLES main_result, report_exists

\* analyze.py: one call of the Type Mapper
VARIABLES mapper

\* the output file and the statistics of an earlier call of process_chunks
\* with the same arguments
VARIABLES first_run

\* analyze.py: one call of analyze_column_characteristics
VARIABLES characteristics

\* one call of one phase on a window of its own
VARIABLES phase_call

vars == <<pc, input_exists, input_file, output_before, output_file,
          chunk_size, date_cutoff, reader_pos, chunk_num, chunk,
          initial_rows, first_chunk, stats, result,
          main_result, report_exists, mapper, first_run,
          characteristics, phase_call>>

\* ------------------------------------------------------------------
\* Bounds of the model
\* ------------------------------------------------------------------
MaxRows == 3
MaxChunkSize == 2
MaxYear == 2020

\* ------------------------------------------------------------------
\* Column names (character sequences)
\* ------------------------------------------------------------------
ID == <<"I", "D">>
Description == <<"D", "e", "s", "c", "r", "i", "p", "t", "i", "o", "n">>
End_Lat == <<"E", "n", "d", "_", "L", "a", "t">>
End_Lng == <<"E", "n", "d", "_", "L", "n", "g">>
End_Time == <<"E", "n", "d", "_", "T", "i", "m", "e">>
Weather_Timestamp == <<"W", "e", "a", "t", "h", "e", "r", "_", "T", "i", "m", "e", "s", "t", "a", "m", "p">>
Start_Time == <<"S", "t", "a", "r", "t", "_", "T", "i", "m", "e">>
Start_Lat == <<"S", "t", "a", "r", "t", "_", "L", "a", "t">>
Start_Lng == <<"S", "t", "a", "r", "t", "_", "L", "n", "g">>
Severity == <<"S", "e", "v", "e", "r", "i", "t", "y">>
START_TIME == <<"S", "T", "A", "R", "T", "_", "T", "I", "M", "E">>
START_LAT == <<"S", "T", "A", "R", "T", "_", "L", "A", "T">>
START_LNG == <<"S", "T", "A", "R", "T", "_", "L", "N", "G">>
LATITUDE == <<"L", "A", "T", "I", "T", "U", "D", "E">>
LONGITUDE == <<"L", "O", "N", "G", "I", "T", "U", "D", "E">>
SEVERITY == <<"S", "E", "V", "E", "R", "I", "T", "Y">>
YEAR == <<"Y", "E", "A", "R">>
QUARTER == <<"Q", "U", "A", "R", "T", "E", "R">>
MONTH == <<"M", "O", "N", "T", "H">>
DAY == <<"D", "A", "Y">>
HOUR == <<"H", "O", "U", "R">>
MINUTE == <<"M", "I", "N", "U", "T", "E">>
SECOND == <<"S", "E", "C", "O", "N", "D">>
IS_WEEKEND == <<"I", "S", "_", "W", "E", "E", "K", "E", "N", "D">>

\* default of the parameter columns_to_delete
DefaultColumnsToDelete == <<ID, Description, End_Lat, End_Lng, End_Time, Weather_Timestamp>>

\* ------------------------------------------------------------------
\* Sequence helpers
\* ------------------------------------------------------------------
InSeq(x, s) == \E i \in 1..Len(s) : s[i] = x

IndexOf(x, s) == CHOOSE i \in 1..Len(s) : s[i] = x /\ \A j \in 1..(i - 1) : s[j] # x

\* the subsequence of s at the positions satisfying keep, in order
RECURSIVE PickFrom(_, _, _)
PickFrom(s, keep, i) ==
    IF i > Len(s) THEN <<>>
    ELSE (IF i \in keep THEN <<s[i]>> ELSE <<>>) \o PickFrom(s, keep, i + 1)

Pick(s, keep) == PickFrom(s, keep, 1)

Min(a, b) == IF a < b THEN a ELSE b

\* ------------------------------------------------------------------
\* DataFrame helpers (pandas)
\* ------------------------------------------------------------------
NRows(df) == Len(df.rows)

NCols(df) == Len(df.columns)

HasColumn(df, col) == InSeq(col, df.columns)

\* df[mask]: the rows at the positions in keep, labels kept
SelectRows(df, keep) ==
    [df EXCEPT !.rows = Pick(df.rows, keep), !.index = Pick(df.index, keep)]

\* df.drop(columns=...): the columns at the positions in gone removed
DropPositions(df, gone) ==
    LET keep == (1..NCols(df)) \ gone
    IN [df EXCEPT !.columns = Pick(df.columns, keep),
                  !.dtypes = Pick(df.dtypes, keep),
                  !.rows = [r \in 1..NRows(df) |-> Pick(df.rows[r], keep)]]

\* df[col] = values, for a column that exists
SetColumn(df, c, dtype, values) ==
    [df EXCEPT !.dtypes[c] = dtype,
               !.rows = [r \in 1..NRows(df) |-> [df.rows[r] EXCEPT ![c] = values[r]]]]

\* df[col] = values, for a new column: appended last
AddColumn(df, col, dtype, values) ==
    [df EXCEPT !.columns = Append(df.columns, col),
               !.dtypes = Append(df.dtypes, dtype),
               !.rows = [r \in 1..NRows(df) |-> Append(df.rows[r], values[r])]]

\* Series.astype of an integer to a signed integer of w <= 16 bits: wraps
CastInt(v, w) ==
    LET m == v % (2 ^ w)
    IN IF m >= 2 ^ (w - 1) THEN m - 2 ^ w ELSE m

\* the int64 value q * 2^31 + r
Wide(q, r) == [q |-> q, r |-> r]

\* the int64 value of a small natural number
WideOf(n) == Wide(0, n)

\* Series.astype of an int64 to a signed integer of w bits: the low w bits
CastWide(x, w) ==
    IF w < 32 THEN CastInt(x.r, w)
    ELSE IF x.q % 2 = 0 THEN x.r
    ELSE (x.r - 2 ^ 30) - 2 ^ 30

\* ------------------------------------------------------------------
\* Timestamps: pd.to_datetime and the .dt accessors
\* ------------------------------------------------------------------
NaT == [nat |-> TRUE, sec |-> 0]

IsLeap(y) == (y % 4 = 0 /\ y % 100 # 0) \/ y % 400 = 0

DaysInMonth(y, m) ==
    IF m = 2 THEN (IF IsLeap(y) THEN 29 ELSE 28)
    ELSE IF m \in {4, 6, 9, 11} THEN 30 ELSE 31

\* days from 1970-01-01 to the civil date y-m-d (proleptic Gregorian)
DaysFromCivil(y, m, d) ==
    LET yy == IF m <= 2 THEN y - 1 ELSE y
        era == yy \div 400
        yoe == yy - era * 400
        mp == IF m > 2 THEN m - 3 ELSE m + 9
        doy == (153 * mp + 2) \div 5 + d - 1
        doe == yoe * 365 + yoe \div 4 - yoe \div 100 + doy
    IN era * 146097 + doe - 719468

\* the civil date of day number z, as [y, m, d]
CivilFromDays(z) ==
    LET zz == z + 719468
        era == zz \div 146097
        doe == zz - era * 146097
        yoe == (doe - doe \div 1460 + doe \div 36524 - doe \div 146096) \div 365
        doy == doe - (365 * yoe + yoe \div 4 - yoe \div 100)
        mp == (5 * doy + 2) \div 153
        d == doy - (153 * mp + 2) \div 5 + 1
        m == IF mp < 10 THEN mp + 3 ELSE mp - 9
    IN [y |-> (yoe + era * 400) + (IF m <= 2 THEN 1 ELSE 0), m |-> m, d |-> d]

\* the text t names a timestamp
ValidTimestampText(t) ==
    /\ t.ok
    /\ t.m \in 1..12
    /\ t.d >= 1 /\ t.d <= DaysInMonth(t.y, t.m)
    /\ t.h \in 0..23 /\ t.mi \in 0..59 /\ t.s \in 0..59

\* pd.to_datetime(text, errors='coerce') of one cell
ToDatetimeCoerce(t) ==
    IF ValidTimestampText(t)
    THEN [nat |-> FALSE,
          sec |-> DaysFromCivil(t.y, t.m, t.d) * 86400 + t.h * 3600 + t.mi * 60 + t.s]
    ELSE NaT

DtDays(ts) == ts.sec \div 86400

DtYear(ts) == CivilFromDays(DtDays(ts)).y

DtMonth(ts) == CivilFromDays(DtDays(ts)).m

DtDay(ts) == CivilFromDays(DtDays(ts)).d

DtQuarter(ts) == (DtMonth(ts) - 1) \div 3 + 1

DtHour(ts) == (ts.sec % 86400) \div 3600

DtMinute(ts) == (ts.sec % 3600) \div 60

DtSecond(ts) == ts.sec % 60

\* Monday = 0 .. Sunday = 6; 1970-01-01 was a Thursday
DtDayOfWeek(ts) == (DtDays(ts) + 3) % 7

\* ------------------------------------------------------------------
\* The phases.  A phase yields [exc, df]: exc = TRUE when it raises.
\* ------------------------------------------------------------------
Ok(df) == [exc |-> FALSE, df |-> df]

Raised(df) == [exc |-> TRUE, df |-> df]

phase_delete_columns(df, columns_to_delete) ==
    LET gone == {c \in 1..NCols(df) : InSeq(df.columns[c], columns_to_delete)}
    IN IF gone # {} THEN DropPositions(df, gone) ELSE df

\* the column parsed in place when it is not yet datetime64[ns]
ParsedTimeColumn(df, c) ==
    IF df.dtypes[c] # "datetime64[ns]"
    THEN SetColumn(df, c, "datetime64[ns]",
                   [r \in 1..NRows(df) |-> ToDatetimeCoerce(df.rows[r][c])])
    ELSE df

\* DateMask with > for >=: the cutoff itself is filtered out
DateMaskExclusive(df, c, cutoff) ==
    {r \in 1..NRows(df) : ~df.rows[r][c].nat /\ df.rows[r][c].sec > cutoff.sec}

\* DateMask with NaT comparing True
DateMaskKeepsNaT(df, c, cutoff) ==
    {r \in 1..NRows(df) : df.rows[r][c].nat \/ df.rows[r][c].sec >= cutoff.sec}

\* df[time_column] >= cutoff_date: NaT compares False
DateMask(df, c, cutoff) ==
    {r \in 1..NRows(df) : ~df.rows[r][c].nat /\ df.rows[r][c].sec >= cutoff.sec}

phase_filter_date(df, cutoff_text) ==
    IF ~HasColumn(df, Start_Time) THEN Ok(df)
    ELSE LET c == IndexOf(Start_Time, df.columns)
             parsed == ParsedTimeColumn(df, c)
         IN IF ~ValidTimestampText(cutoff_text)
            THEN Raised(parsed)
            ELSE Ok(SelectRows(parsed, DateMask(parsed, c, ToDatetimeCoerce(cutoff_text))))

\* the eight derived columns, in the order they are assigned
TimeFeatures ==
    << [name |-> YEAR, dtype |-> "int16"], [name |-> QUARTER, dtype |-> "int8"],
       [name |-> MONTH, dtype |-> "int8"], [name |-> DAY, dtype |-> "int8"],
       [name |-> HOUR, dtype |-> "int8"], [name |-> MINUTE, dtype |-> "int8"],
       [name |-> SECOND, dtype |-> "int8"], [name |-> IS_WEEKEND, dtype |-> "bool"] >>

\* IsWeekendOf for days numbered 1 = Monday .. 7 = Sunday
IsWeekendOfOneBased(ts) == DtDayOfWeek(ts) \in {6, 7}

IsWeekendOf(ts) == DtDayOfWeek(ts) \in {5, 6}

\* TimeFeatureValue with YEAR narrowed to 8 bits like the other features
TimeFeatureValueYearInt8(k, ts) ==
    CASE k = 1 -> CastInt(DtYear(ts), 8)
      [] k = 2 -> CastInt(DtQuarter(ts), 8)
      [] k = 3 -> CastInt(DtMonth(ts), 8)
      [] k = 4 -> CastInt(DtDay(ts), 8)
      [] k = 5 -> CastInt(DtHour(ts), 8)
      [] k = 6 -> CastInt(DtMinute(ts), 8)
      [] k = 7 -> CastInt(DtSecond(ts), 8)
      [] k = 8 -> IsWeekendOf(ts)

TimeFeatureValue(k, ts) ==
    CASE k = 1 -> CastInt(DtYear(ts), 16)
      [] k = 2 -> CastInt(DtQuarter(ts), 8)
      [] k = 3 -> CastInt(DtMonth(ts), 8)
      [] k = 4 -> CastInt(DtDay(ts), 8)
      [] k = 5 -> CastInt(DtHour(ts), 8)
      [] k = 6 -> CastInt(DtMinute(ts), 8)
      [] k = 7 -> CastInt(DtSecond(ts), 8)
      [] k = 8 -> IsWeekendOf(ts)

\* df[name] = ...: an existing column is overwritten in place, a new one appended
AssignColumn(df, col, dtype, values) ==
    IF HasColumn(df, col)
    THEN SetColumn(df, IndexOf(col, df.columns), dtype, values)
    ELSE AddColumn(df, col, dtype, values)

RECURSIVE AssignTimeFeatures(_, _, _)
AssignTimeFeatures(df, times, k) ==
    IF k > Len(TimeFeatures) THEN df
    ELSE AssignTimeFeatures(
             AssignColumn(df, TimeFeatures[k].name, TimeFeatures[k].dtype,
                          [r \in 1..NRows(df) |-> TimeFeatureValue(k, times[r])]),
             times, k + 1)

\* DropTimeColumn that drops nothing
KeepTimeColumn(df) == df

DropTimeColumn(df) == DropPositions(df, {c \in 1..NCols(df) : df.columns[c] = Start_Time})

phase_create_time_features(df) ==
    IF ~HasColumn(df, Start_Time) THEN Ok(df)
    ELSE LET c == IndexOf(Start_Time, df.columns)
             parsed == ParsedTimeColumn(df, c)
             times == [r \in 1..NRows(df) |-> parsed.rows[r][c]]
         IN IF \E r \in 1..NRows(df) : times[r].nat
            THEN Raised(parsed)    \* .dt.year of NaT is NaN: astype('int16') raises
            ELSE Ok(DropTimeColumn(AssignTimeFeatures(parsed, times, 1)))

\* ------------------------------------------------------------------
\* Phase 4: SQL Server data types
\* ------------------------------------------------------------------
\* coord_cols with the standardized names only
coord_cols_standardized == <<LATITUDE, LONGITUDE>>

coord_cols == <<Start_Lat, Start_Lng, LATITUDE, LONGITUDE>>

FloatDtypes == {"float64", "float32"}

IntDtypes == {"int64", "int32", "int16", "int8"}

\* the number of fixed-point units in 1.0
FloatUnit == 10 ^ 7

\* round half to even of v to a multiple of q
RoundHalfEven(v, q) ==
    LET lo == (v \div q) * q
        rest == v - lo
    IN IF 2 * rest < q THEN lo
       ELSE IF 2 * rest > q THEN lo + q
       ELSE IF (lo \div q) % 2 = 0 THEN lo ELSE lo + q

\* Series.round(places) of one float
RoundFloat(v, places) == RoundHalfEven(v, FloatUnit \div 10 ^ places)

\* .round(6) of a coordinate column raises on a column that is not numeric
CoordRaises(df) ==
    \E c \in 1..NCols(df) :
        /\ InSeq(df.columns[c], coord_cols)
        /\ df.dtypes[c] \notin FloatDtypes \cup IntDtypes

\* the dtype of a column after the phase
SqlDtype(name, dtype) ==
    IF InSeq(name, coord_cols) THEN "float64"
    ELSE IF dtype \in FloatDtypes THEN "float64"
    ELSE IF dtype \in {"int64", "int32"}
         THEN (IF name = YEAR THEN "int16"
               ELSE IF name \in {QUARTER, MONTH, DAY, HOUR, MINUTE, SECOND} THEN "int8"
               ELSE "int32")
    ELSE IF dtype = "bool" THEN "int8"
    ELSE IF dtype = "object" THEN "string"
    ELSE dtype

\* the value of a cell after the phase
SqlValue(name, dtype, v) ==
    IF InSeq(name, coord_cols)
    THEN (IF dtype = "int64" THEN v.r * FloatUnit
          ELSE IF dtype \in IntDtypes THEN v * FloatUnit
          ELSE RoundFloat(v, 6))
    ELSE IF dtype \in FloatDtypes THEN RoundFloat(v, 4)
    ELSE IF dtype = "int64"
         THEN (IF name = YEAR THEN CastWide(v, 16)
               ELSE IF name \in {QUARTER, MONTH, DAY, HOUR, MINUTE, SECOND} THEN CastWide(v, 8)
               ELSE CastWide(v, 32))
    ELSE IF dtype = "int32"
         THEN (IF name = YEAR THEN CastInt(v, 16)
               ELSE IF name \in {QUARTER, MONTH, DAY, HOUR, MINUTE, SECOND} THEN CastInt(v, 8)
               ELSE v)
    ELSE IF dtype = "bool" THEN (IF v THEN 1 ELSE 0)
    ELSE v

phase_sql_data_types(df) ==
    IF CoordRaises(df) THEN Raised(df)
    ELSE Ok([df EXCEPT
               !.dtypes = [c \in 1..NCols(df) |-> SqlDtype(df.columns[c], df.dtypes[c])],
               !.rows = [r \in 1..NRows(df) |->
                           [c \in 1..NCols(df) |->
                               SqlValue(df.columns[c], df.dtypes[c], df.rows[r][c])]]])

\* ------------------------------------------------------------------
\* Phase 5: column names
\* ------------------------------------------------------------------
LowerChars == <<"a", "b", "c", "d", "e", "f", "g", "h", "i", "j", "k", "l", "m",
                "n", "o", "p", "q", "r", "s", "t", "u", "v", "w", "x", "y", "z">>

UpperChars == <<"A", "B", "C", "D", "E", "F", "G", "H", "I", "J", "K", "L", "M",
                "N", "O", "P", "Q", "R", "S", "T", "U", "V", "W", "X", "Y", "Z">>

WhiteChars == {" ", "\t"}

\* the upper-case letter of each lower-case letter
UpperOf == [ch \in {LowerChars[i] : i \in 1..Len(LowerChars)} |->
               UpperChars[IndexOf(ch, LowerChars)]]

UpperChar(ch) == IF ch \in DOMAIN UpperOf THEN UpperOf[ch] ELSE ch

\* str.upper()
Upper(name) == [i \in 1..Len(name) |-> UpperChar(name[i])]

\* re.sub(r'\([^)]*\)', '', s): each "(" up to the next ")" is removed
RECURSIVE StripParens(_)
StripParens(s) ==
    IF s = <<>> THEN <<>>
    ELSE IF s[1] = "(" /\ \E j \in 2..Len(s) : s[j] = ")"
         THEN LET j == CHOOSE k \in 2..Len(s) : s[k] = ")" /\ \A l \in 2..(k - 1) : s[l] # ")"
              IN StripParens(SubSeq(s, j + 1, Len(s)))
         ELSE <<s[1]>> \o StripParens(Tail(s))

\* str.strip(chars)
RECURSIVE StripChars(_, _)
StripChars(s, chars) ==
    IF s = <<>> THEN <<>>
    ELSE IF s[1] \in chars THEN StripChars(Tail(s), chars)
    ELSE IF s[Len(s)] \in chars THEN StripChars(SubSeq(s, 1, Len(s) - 1), chars)
    ELSE s

\* re.sub of each maximal run of characters of chars by one underscore
RECURSIVE CollapseRuns(_, _)
CollapseRuns(s, chars) ==
    IF s = <<>> THEN <<>>
    ELSE IF s[1] \in chars
         THEN IF Len(s) >= 2 /\ s[2] \in chars
              THEN CollapseRuns(Tail(s), chars)
              ELSE <<"_">> \o CollapseRuns(Tail(s), chars)
         ELSE <<s[1]>> \o CollapseRuns(Tail(s), chars)

\* StandardName without the last strip('_')
StandardNameUnstripped(col) ==
    LET upper == Upper(col)
        noparens == StripParens(upper)
        spaced == CollapseRuns(StripChars(noparens, WhiteChars), WhiteChars)
    IN CollapseRuns(spaced, {"_"})

StandardName(col) ==
    LET upper == Upper(col)
        noparens == StripParens(upper)
        spaced == CollapseRuns(StripChars(noparens, WhiteChars), WhiteChars)
    IN StripChars(CollapseRuns(spaced, {"_"}), {"_"})

CoordinateName(col) ==
    IF col = START_LAT THEN LATITUDE
    ELSE IF col = START_LNG THEN LONGITUDE
    ELSE col

phase_standardize_columns(df) ==
    [df EXCEPT !.columns = [c \in 1..NCols(df) |-> CoordinateName(StandardName(df.columns[c]))]]

\* ------------------------------------------------------------------
\* Phase 6: validation
\* ------------------------------------------------------------------
Contains(s, pattern) ==
    \E i \in 0..(Len(s) - Len(pattern)) : SubSeq(s, i + 1, i + Len(pattern)) = pattern

\* find_column([pattern]): the position of the first matching column, 0 for None
find_column(df, pattern) ==
    LET hits == {c \in 1..NCols(df) : Contains(Upper(df.columns[c]), Upper(pattern))}
    IN IF hits # {}
       THEN CHOOSE c \in hits : \A b \in hits : c <= b
       ELSE 0

\* Series.isin([0, 1, 2, 3, 4]) of one cell
IsAllowedSeverityFromZero(dtype, v) ==
    IF dtype = "int64" THEN v.q = 0 /\ v.r \in {0, 1, 2, 3, 4}
    ELSE IF dtype \in IntDtypes THEN v \in {0, 1, 2, 3, 4}
    ELSE IF dtype \in FloatDtypes THEN v \in {k * FloatUnit : k \in {0, 1, 2, 3, 4}}
    ELSE FALSE

\* Series.isin([1, 2, 3, 4]) of one cell
IsAllowedSeverity(dtype, v) ==
    IF dtype = "int64" THEN v.q = 0 /\ v.r \in {1, 2, 3, 4}
    ELSE IF dtype \in IntDtypes THEN v \in {1, 2, 3, 4}
    ELSE IF dtype \in FloatDtypes THEN v \in {k * FloatUnit : k \in {1, 2, 3, 4}}
    ELSE FALSE

phase_validate_clean(df) ==
    LET c == find_column(df, SEVERITY)
    IN IF c # 0
       THEN SelectRows(df, {r \in 1..NRows(df) : IsAllowedSeverity(df.dtypes[c], df.rows[r][c])})
       ELSE df

\* ------------------------------------------------------------------
\* Files
\* ------------------------------------------------------------------
\* A CSV cell of the input is [k, v]: k = "int" with the int64 v, k = "float"
\* with the fixed-point v, or k = "text" with the text v.
\* A text is given by what pd.to_datetime reads in it: [ok, y, m, d, h, mi, s].
NoTimestamp == [ok |-> FALSE, y |-> 0, m |-> 0, d |-> 0, h |-> 0, mi |-> 0, s |-> 0]

TimestampText(y, m, d, h, mi, s) ==
    [ok |-> TRUE, y |-> y, m |-> m, d |-> d, h |-> h, mi |-> mi, s |-> s]

IntCell(v) == [k |-> "int", v |-> v]

FloatCell(v) == [k |-> "float", v |-> v]

TextCell(t) == [k |-> "text", v |-> t]

\* An output file is [exists, lines]; a line is [header, cells, label]: the
\* header line holds the column names, a data line the cells of one row.
\* label is the index label of the row in the DataFrame it was written from
\* (to_csv(index=False) writes no index: label only records which row it was).
NoFile == [exists |-> FALSE, lines |-> <<>>]

HeaderLine(df) == [header |-> TRUE, cells |-> df.columns, label |-> 0 - 1]

DataLines(df) ==
    [r \in 1..NRows(df) |-> [header |-> FALSE, cells |-> df.rows[r], label |-> df.index[r]]]

\* DataFrame.to_csv(path, index=False, mode='w')
to_csv_w(df) == [exists |-> TRUE, lines |-> <<HeaderLine(df)>> \o DataLines(df)]

\* to_csv_a without header=False: every appended window repeats the header
to_csv_a_header(file, df) ==
    [exists |-> TRUE, lines |-> file.lines \o <<HeaderLine(df)>> \o DataLines(df)]

\* to_csv_a with mode='w': every window replaces the file
to_csv_a_overwrite(file, df) == to_csv_w(df)

\* DataFrame.to_csv(path, index=False, mode='a', header=False)
to_csv_a(file, df) == [exists |-> TRUE, lines |-> file.lines \o DataLines(df)]

\* the dtype pandas infers for the cells of one column of a window
InferDtype(cells) ==
    IF \A i \in 1..Len(cells) : cells[i].k = "int" THEN "int64"
    ELSE IF \A i \in 1..Len(cells) : cells[i].k \in {"int", "float"} THEN "float64"
    ELSE "object"

\* the value a cell is read as, in a column of the given dtype
ReadCell(dtype, cell) ==
    IF dtype = "int64" THEN cell.v
    ELSE IF dtype = "float64"
         THEN (IF cell.k = "int" THEN cell.v.r * FloatUnit ELSE cell.v)
    ELSE IF cell.k = "text" THEN cell.v ELSE NoTimestamp

\* one window of pd.read_csv(input_file, chunksize=chunk_size): the records
\* from + 1 .. from + n of the file, labelled from .. from + n - 1
read_csv(file, from, n) ==
    LET window == SubSeq(file.rows, from + 1, from + n)
        dtypes == [c \in 1..Len(file.columns) |->
                      InferDtype([r \in 1..n |-> window[r][c]])]
    IN [columns |-> file.columns,
        dtypes |-> dtypes,
        index |-> [r \in 1..n |-> from + r - 1],
        rows |-> [r \in 1..n |->
                    [c \in 1..Len(file.columns) |-> ReadCell(dtypes[c], window[r][c])]]]

NoChunk == [columns |-> <<>>, dtypes |-> <<>>, index |-> <<>>, rows |-> <<>>]

\* ------------------------------------------------------------------
\* process_chunks
\* ------------------------------------------------------------------
NewStats ==
    [chunks_processed |-> 0, total_rows_input |-> 0, total_rows_output |-> 0,
     columns_deleted |-> 0, time_features_added |-> 7]

\* the phases of one iteration of the loop, in their order: outcome "raised"
\* when a phase raises, "empty" when the window is empty after the date
\* filter, "ok" with the window to be written
ApplyPhases(df, columns_to_delete, cutoff_text) ==
    LET deleted == phase_delete_columns(df, columns_to_delete)
        filtered == phase_filter_date(deleted, cutoff_text)
        timed == phase_create_time_features(filtered.df)
        typed == phase_sql_data_types(timed.df)
        cleaned == phase_validate_clean(phase_standardize_columns(typed.df))
    IN IF filtered.exc THEN [outcome |-> "raised", df |-> NoChunk]
       ELSE IF NRows(filtered.df) = 0 THEN [outcome |-> "empty", df |-> NoChunk]
       ELSE IF timed.exc THEN [outcome |-> "raised", df |-> NoChunk]
       ELSE IF typed.exc THEN [outcome |-> "raised", df |-> NoChunk]
       ELSE [outcome |-> "ok", df |-> cleaned]

\* stats['columns_deleted'], set from the first window only
ColumnsDeleted(st, num, df, columns_to_delete) ==
    IF num = 1
    THEN [st EXCEPT !.columns_deleted =
              NCols(df) - NCols(phase_delete_columns(df, columns_to_delete))]
    ELSE st

\* UpdateStats with the two row counts taken for each other
UpdateStatsSwapped(st, num, rows_in, rows_out) ==
    [st EXCEPT !.chunks_processed = num,
               !.total_rows_input = @ + rows_out,
               !.total_rows_output = @ + rows_in]

\* the statistics after a window was written
UpdateStats(st, num, rows_in, rows_out) ==
    [st EXCEPT !.chunks_processed = num,
               !.total_rows_input = @ + rows_in,
               !.total_rows_output = @ + rows_out]

Phases == ApplyPhases(chunk, DefaultColumnsToDelete, date_cutoff)

\* InputMissing with the output file removed before the input is looked for
InputMissingAfterRemove ==
    /\ pc = "start"
    /\ ~input_exists
    /\ output_file' = NoFile
    /\ pc' = "returned"
    /\ result' = "None"
    /\ UNCHANGED <<main_result, report_exists, mapper, first_run, characteristics, phase_call>>
    /\ UNCHANGED <<input_exists, input_file, output_before, chunk_size,
                   date_cutoff, reader_pos, chunk_num, chunk, initial_rows,
                   first_chunk, stats>>

\* the input file does not exist: return None
InputMissing ==
    /\ pc = "start"
    /\ ~input_exists
    /\ pc' = "returned"
    /\ result' = "None"
    /\ UNCHANGED <<main_result, report_exists, mapper, first_run, characteristics, phase_call>>
    /\ UNCHANGED <<input_exists, input_file, output_before, output_file, chunk_size,
                   date_cutoff, reader_pos, chunk_num, chunk, initial_rows,
                   first_chunk, stats>>

\* Begin without the removal of the output file
BeginKeepsOutput ==
    /\ pc = "start"
    /\ input_exists
    /\ stats' = NewStats
    /\ first_chunk' = TRUE
    /\ pc' = "loop"
    /\ UNCHANGED <<main_result, report_exists, mapper, first_run, characteristics, phase_call>>
    /\ UNCHANGED <<input_exists, input_file, output_before, output_file, chunk_size,
                   date_cutoff, reader_pos, chunk_num, chunk, initial_rows, result>>

\* the output file is removed, the statistics start, the reader is opened
Begin ==
    /\ pc = "start"
    /\ input_exists
    /\ output_file' = NoFile
    /\ stats' = NewStats
    /\ first_chunk' = TRUE
    /\ pc' = "loop"
    /\ UNCHANGED <<main_result, report_exists, mapper, first_run, characteristics, phase_call>>
    /\ UNCHANGED <<input_exists, input_file, output_before, chunk_size, date_cutoff,
                   reader_pos, chunk_num, chunk, initial_rows, result>>

\* the next window is read
ReadWindow ==
    /\ pc = "loop"
    /\ reader_pos < Len(input_file.rows)
    /\ LET n == Min(chunk_size, Len(input_file.rows) - reader_pos)
       IN /\ chunk' = read_csv(input_file, reader_pos, n)
          /\ reader_pos' = reader_pos + n
          /\ initial_rows' = n
    /\ chunk_num' = chunk_num + 1
    /\ pc' = "phases"
    /\ UNCHANGED <<main_result, report_exists, mapper, first_run, characteristics, phase_call>>
    /\ UNCHANGED <<input_exists, input_file, output_before, output_file, chunk_size,
                   date_cutoff, first_chunk, stats, result>>

\* the window is empty after the date filter: continue
SkipEmptyWindow ==
    /\ pc = "phases"
    /\ Phases.outcome = "empty"
    /\ stats' = ColumnsDeleted(stats, chunk_num, chunk, DefaultColumnsToDelete)
    /\ chunk' = NoChunk
    /\ pc' = "loop"
    /\ UNCHANGED <<main_result, report_exists, mapper, first_run, characteristics, phase_call>>
    /\ UNCHANGED <<input_exists, input_file, output_before, output_file, chunk_size,
                   date_cutoff, reader_pos, chunk_num, initial_rows, first_chunk, result>>

\* PhaseError that skips the window and goes on with the next one
PhaseErrorSkips ==
    /\ pc = "phases"
    /\ Phases.outcome = "raised"
    /\ pc' = "loop"
    /\ UNCHANGED <<main_result, report_exists, mapper, first_run, characteristics, phase_call>>
    /\ UNCHANGED <<input_exists, input_file, output_before, output_file, chunk_size,
                   date_cutoff, reader_pos, chunk_num, chunk, initial_rows,
                   first_chunk, stats, result>>

\* a phase raises: return None
PhaseError ==
    /\ pc = "phases"
    /\ Phases.outcome = "raised"
    /\ stats' = ColumnsDeleted(stats, chunk_num, chunk, DefaultColumnsToDelete)
    /\ result' = "None"
    /\ pc' = "returned"
    /\ UNCHANGED <<main_result, report_exists, mapper, first_run, characteristics, phase_call>>
    /\ UNCHANGED <<input_exists, input_file, output_before, output_file, chunk_size,
                   date_cutoff, reader_pos, chunk_num, chunk, initial_rows,
                   first_chunk>>

\* the first written window creates the file with its header
WriteFirstChunk ==
    /\ pc = "phases"
    /\ first_chunk
    /\ LET done == Phases
       IN /\ done.outcome = "ok"
          /\ output_file' = to_csv_w(done.df)
          /\ stats' = UpdateStats(ColumnsDeleted(stats, chunk_num, chunk, DefaultColumnsToDelete),
                                  chunk_num, initial_rows, NRows(done.df))
    /\ first_chunk' = FALSE
    /\ chunk' = NoChunk
    /\ pc' = "loop"
    /\ UNCHANGED <<main_result, report_exists, mapper, first_run, characteristics, phase_call>>
    /\ UNCHANGED <<input_exists, input_file, output_before, chunk_size, date_cutoff,
                   reader_pos, chunk_num, initial_rows, result>>

\* a later written window is appended without header
AppendChunk ==
    /\ pc = "phases"
    /\ ~first_chunk
    /\ LET done == Phases
       IN /\ done.outcome = "ok"
          /\ output_file' = to_csv_a(output_file, done.df)
          /\ stats' = UpdateStats(ColumnsDeleted(stats, chunk_num, chunk, DefaultColumnsToDelete),
                                  chunk_num, initial_rows, NRows(done.df))
    /\ chunk' = NoChunk
    /\ pc' = "loop"
    /\ UNCHANGED <<main_result, report_exists, mapper, first_run, characteristics, phase_call>>
    /\ UNCHANGED <<input_exists, input_file, output_before, chunk_size, date_cutoff,
                   reader_pos, chunk_num, initial_rows, first_chunk, result>>

\* the reader is exhausted: return stats
ReturnStats ==
    /\ pc = "loop"
    /\ reader_pos = Len(input_file.rows)
    /\ result' = "stats"
    /\ pc' = "returned"
    /\ UNCHANGED <<main_result, report_exists, mapper, first_run, characteristics, phase_call>>
    /\ UNCHANGED <<input_exists, input_file, output_before, output_file, chunk_size,
                   date_cutoff, reader_pos, chunk_num, chunk, initial_rows,
                   first_chunk, stats>>

Next ==
    \/ InputMissing
    \/ Begin
    \/ ReadWindow
    \/ SkipEmptyWindow
    \/ PhaseError
    \/ WriteFirstChunk
    \/ AppendChunk
    \/ ReturnStats

NoEarlierRun == [done |-> FALSE, output_file |-> NoFile, stats |-> NewStats]

\* process_chunks returned statistics and is called again with the same
\* arguments: what it finds at the output path is the file it wrote
RunAgain ==
    /\ pc = "returned"
    /\ result = "stats"
    /\ ~first_run.done
    /\ first_run' = [done |-> TRUE, output_file |-> output_file, stats |-> stats]
    /\ output_before' = output_file
    /\ pc' = "start"
    /\ reader_pos' = 0
    /\ chunk_num' = 0
    /\ chunk' = NoChunk
    /\ initial_rows' = 0
    /\ first_chunk' = TRUE
    /\ stats' = NewStats
    /\ result' = "running"
    /\ UNCHANGED <<input_exists, input_file, output_file, chunk_size, date_cutoff>>
    /\ UNCHANGED <<main_result, report_exists, mapper, characteristics, phase_call>>

NextRerun ==
    \/ Next
    \/ RunAgain

\* ------------------------------------------------------------------
\* main: process_chunks, then the comparison and the report
\* ------------------------------------------------------------------
process_chunks_vars ==
    <<pc, input_exists, input_file, output_before, output_file, chunk_size,
      date_cutoff, reader_pos, chunk_num, chunk, initial_rows, first_chunk,
      stats, result>>

\* get_file_info of a path: a missing file has neither size_bytes nor
\* formatted.  size is the number of lines of the file.
get_file_info(exists, size) ==
    IF ~exists THEN [size_mb |-> 0, exists |-> FALSE]
    ELSE [size_bytes |-> size, size_mb |-> size, exists |-> TRUE, formatted |-> size]

\* the exception compare_datasets_detailed ends with, "None" when it returns
compare_datasets_detailed(orig_info, proc_info, processing_stats) ==
    IF "formatted" \notin DOMAIN orig_info THEN "KeyError"
    ELSE IF "formatted" \notin DOMAIN proc_info THEN "KeyError"
    ELSE IF orig_info.exists /\ proc_info.exists /\ orig_info.size_mb = 0
         THEN "ZeroDivisionError"
    ELSE IF processing_stats.total_rows_input = 0 THEN "ZeroDivisionError"
    ELSE "None"

\* the comparison main makes once process_chunks has returned statistics
Comparison ==
    compare_datasets_detailed(
        get_file_info(input_exists, 1 + Len(input_file.rows)),
        get_file_info(output_file.exists, Len(output_file.lines)),
        stats)

\* process_chunks returned None: main returns False
MainProcessingFailed ==
    /\ pc = "returned"
    /\ result = "None"
    /\ main_result = "running"
    /\ main_result' = "False"
    /\ UNCHANGED <<report_exists, mapper, first_run, characteristics, phase_call>>
    /\ UNCHANGED process_chunks_vars

\* the comparison raises: main prints the traceback and returns False
MainCompareRaises ==
    /\ pc = "returned"
    /\ result = "stats"
    /\ main_result = "running"
    /\ Comparison # "None"
    /\ main_result' = "False"
    /\ UNCHANGED <<report_exists, mapper, first_run, characteristics, phase_call>>
    /\ UNCHANGED process_chunks_vars

\* the comparison is printed, generate_full_report saves the report file
\* (with or without the analyses), main returns True
MainReport ==
    /\ pc = "returned"
    /\ result = "stats"
    /\ main_result = "running"
    /\ Comparison = "None"
    /\ report_exists' = TRUE
    /\ main_result' = "True"
    /\ UNCHANGED <<mapper, first_run, characteristics, phase_call>>
    /\ UNCHANGED process_chunks_vars

NextMain ==
    \/ Next
    \/ MainProcessingFailed
    \/ MainCompareRaises
    \/ MainReport

\* ------------------------------------------------------------------
\* analyze.py: the Type Mapper
\* ------------------------------------------------------------------
DATE == <<"D", "A", "T", "E">>
LAT == <<"L", "A", "T">>
LNG == <<"L", "N", "G">>
DURATION == <<"D", "U", "R", "A", "T", "I", "O", "N">>
CITY == <<"C", "I", "T", "Y">>
City == <<"C", "i", "t", "y">>

\* 'AMENITY', 'BUMP', 'CROSSING', 'GIVE_WAY', 'JUNCTION', 'NO_EXIT', 'RAILWAY',
\* 'ROUNDABOUT', 'STATION', 'STOP', 'TRAFFIC_CALMING', 'TRAFFIC_SIGNAL', 'TURNING_LOOP'
boolean_columns ==
    << <<"A", "M", "E", "N", "I", "T", "Y">>,
       <<"B", "U", "M", "P">>,
       <<"C", "R", "O", "S", "S", "I", "N", "G">>,
       <<"G", "I", "V", "E", "_", "W", "A", "Y">>,
       <<"J", "U", "N", "C", "T", "I", "O", "N">>,
       <<"N", "O", "_", "E", "X", "I", "T">>,
       <<"R", "A", "I", "L", "W", "A", "Y">>,
       <<"R", "O", "U", "N", "D", "A", "B", "O", "U", "T">>,
       <<"S", "T", "A", "T", "I", "O", "N">>,
       <<"S", "T", "O", "P">>,
       <<"T", "R", "A", "F", "F", "I", "C", "_", "C", "A", "L", "M", "I", "N", "G">>,
       <<"T", "R", "A", "F", "F", "I", "C", "_", "S", "I", "G", "N", "A", "L">>,
       <<"T", "U", "R", "N", "I", "N", "G", "_", "L", "O", "O", "P">> >>

\* the words that make a column a coordinate
CoordinateWords == <<LATITUDE, LONGITUDE, LAT, LNG>>

StringDtypes == {"object", "string"}

\* the dtype names in which 'datetime' occurs, and those in which 'timedelta' occurs
DatetimeDtypes == {"datetime64[ns]", "datetime64[ns, UTC]"}

TimedeltaDtypes == {"timedelta64[ns]"}

\* the NVARCHAR ladder of object and string columns
StringSqlType(max_length) ==
    IF max_length <= 50 THEN "NVARCHAR(50)"
    ELSE IF max_length <= 100 THEN "NVARCHAR(100)"
    ELSE IF max_length <= 255 THEN "NVARCHAR(255)"
    ELSE IF max_length <= 1000 THEN "NVARCHAR(1000)"
    ELSE IF max_length <= 4000 THEN "NVARCHAR(4000)"
    ELSE "NVARCHAR(MAX)"

\* the NVARCHAR ladder of category columns
CategorySqlType(max_length) ==
    IF max_length <= 50 THEN "NVARCHAR(50)"
    ELSE IF max_length <= 100 THEN "NVARCHAR(100)"
    ELSE "NVARCHAR(255)"

\* get_sql_server_type without its last else: None for an unknown dtype
get_sql_server_type_no_default(pandas_dtype, column_name, max_length) ==
    LET upper == Upper(column_name)
    IN IF upper = DATE THEN "DATE"
       ELSE IF \E i \in 1..Len(CoordinateWords) : Contains(upper, CoordinateWords[i])
            THEN "DECIMAL(9,6)"
       ELSE IF pandas_dtype \in StringDtypes /\ InSeq(upper, boolean_columns) THEN "BIT"
       ELSE IF upper = IS_WEEKEND THEN "BIT"
       ELSE IF pandas_dtype \in StringDtypes THEN StringSqlType(max_length)
       ELSE IF pandas_dtype = "int8" THEN "TINYINT"
       ELSE IF pandas_dtype = "int16" THEN "SMALLINT"
       ELSE IF pandas_dtype \in {"int32", "int64"}
            THEN (IF upper = DURATION THEN "BIGINT" ELSE "INT")
       ELSE IF pandas_dtype = "bool" THEN "BIT"
       ELSE IF pandas_dtype \in {"float32", "float64"} THEN "DECIMAL(8,4)"
       ELSE IF pandas_dtype = "category" THEN CategorySqlType(max_length)
       ELSE IF pandas_dtype \in DatetimeDtypes THEN "DATETIME2"
       ELSE IF pandas_dtype \in TimedeltaDtypes THEN "TIME"
       ELSE "None"

get_sql_server_type(pandas_dtype, column_name, max_length) ==
    LET upper == Upper(column_name)
    IN IF upper = DATE THEN "DATE"
       ELSE IF \E i \in 1..Len(CoordinateWords) : Contains(upper, CoordinateWords[i])
            THEN "DECIMAL(9,6)"
       ELSE IF pandas_dtype \in StringDtypes /\ InSeq(upper, boolean_columns) THEN "BIT"
       ELSE IF upper = IS_WEEKEND THEN "BIT"
       ELSE IF pandas_dtype \in StringDtypes THEN StringSqlType(max_length)
       ELSE IF pandas_dtype = "int8" THEN "TINYINT"
       ELSE IF pandas_dtype = "int16" THEN "SMALLINT"
       ELSE IF pandas_dtype \in {"int32", "int64"}
            THEN (IF upper = DURATION THEN "BIGINT" ELSE "INT")
       ELSE IF pandas_dtype = "bool" THEN "BIT"
       ELSE IF pandas_dtype \in {"float32", "float64"} THEN "DECIMAL(8,4)"
       ELSE IF pandas_dtype = "category" THEN CategorySqlType(max_length)
       ELSE IF pandas_dtype \in DatetimeDtypes THEN "DATETIME2"
       ELSE IF pandas_dtype \in TimedeltaDtypes THEN "TIME"
       ELSE "NVARCHAR(100)"

\* ssis_mapping without its entries for BIGINT and TIME
ssis_mapping_without_bigint_time ==
    ("BIT" :> "DT_BOOL") @@ ("TINYINT" :> "DT_UI1") @@ ("SMALLINT" :> "DT_I2")
    @@ ("INT" :> "DT_I4")
    @@ ("DECIMAL(8,4)" :> "DT_NUMERIC(8,4)") @@ ("DECIMAL(9,6)" :> "DT_NUMERIC(9,6)")
    @@ ("FLOAT" :> "DT_R8") @@ ("REAL" :> "DT_R4") @@ ("DATE" :> "DT_DBDATE")
    @@ ("NVARCHAR(50)" :> "DT_WSTR(50)") @@ ("NVARCHAR(100)" :> "DT_WSTR(100)")
    @@ ("NVARCHAR(255)" :> "DT_WSTR(255)") @@ ("NVARCHAR(1000)" :> "DT_WSTR(1000)")
    @@ ("NVARCHAR(4000)" :> "DT_WSTR(4000)") @@ ("NVARCHAR(MAX)" :> "DT_NTEXT")
    @@ ("VARCHAR(100)" :> "DT_STR(100)") @@ ("NTEXT" :> "DT_NTEXT")
    @@ ("TEXT" :> "DT_TEXT") @@ ("DATETIME" :> "DT_DBTIMESTAMP")
    @@ ("DATETIME2" :> "DT_DBTIMESTAMP2")
    @@ ("UNIQUEIDENTIFIER" :> "DT_GUID")

ssis_mapping ==
    ("BIT" :> "DT_BOOL") @@ ("TINYINT" :> "DT_UI1") @@ ("SMALLINT" :> "DT_I2")
    @@ ("INT" :> "DT_I4") @@ ("BIGINT" :> "DT_I8")
    @@ ("DECIMAL(8,4)" :> "DT_NUMERIC(8,4)") @@ ("DECIMAL(9,6)" :> "DT_NUMERIC(9,6)")
    @@ ("FLOAT" :> "DT_R8") @@ ("REAL" :> "DT_R4") @@ ("DATE" :> "DT_DBDATE")
    @@ ("NVARCHAR(50)" :> "DT_WSTR(50)") @@ ("NVARCHAR(100)" :> "DT_WSTR(100)")
    @@ ("NVARCHAR(255)" :> "DT_WSTR(255)") @@ ("NVARCHAR(1000)" :> "DT_WSTR(1000)")
    @@ ("NVARCHAR(4000)" :> "DT_WSTR(4000)") @@ ("NVARCHAR(MAX)" :> "DT_NTEXT")
    @@ ("VARCHAR(100)" :> "DT_STR(100)") @@ ("NTEXT" :> "DT_NTEXT")
    @@ ("TEXT" :> "DT_TEXT") @@ ("DATETIME" :> "DT_DBTIMESTAMP")
    @@ ("DATETIME2" :> "DT_DBTIMESTAMP2") @@ ("TIME" :> "DT_DBTIME")
    @@ ("UNIQUEIDENTIFIER" :> "DT_GUID")

\* ssis_mapping.get(sql_type, 'DT_WSTR(255)')
get_ssis_data_type(sql_type) ==
    IF sql_type \in DOMAIN ssis_mapping THEN ssis_mapping[sql_type] ELSE "DT_WSTR(255)"

\* A call of the Type Mapper: call = "column" maps the description of a
\* column (dtype, name, max_length) to its SQL Server type and that to its
\* SSIS type; call = "sql_type" maps the text sql_type to its SSIS type.
NoCall ==
    [call |-> "none", done |-> FALSE, pandas_dtype |-> "", column_name |-> <<>>,
     max_length |-> 0, sql_type |-> "", ssis_type |-> ""]

ColumnCall(pandas_dtype, column_name, max_length) ==
    [NoCall EXCEPT !.call = "column", !.pandas_dtype = pandas_dtype,
                   !.column_name = column_name, !.max_length = max_length]

SqlTypeCall(sql_type) == [NoCall EXCEPT !.call = "sql_type", !.sql_type = sql_type]

\* one column of the type conversion table: its SQL Server type, then the
\* SSIS type of that
MapColumn ==
    /\ mapper.call = "column"
    /\ ~mapper.done
    /\ LET sql_type == get_sql_server_type(mapper.pandas_dtype, mapper.column_name,
                                           mapper.max_length)
       IN mapper' = [mapper EXCEPT !.done = TRUE, !.sql_type = sql_type,
                                   !.ssis_type = get_ssis_data_type(sql_type)]
    /\ UNCHANGED <<main_result, report_exists, first_run, characteristics, phase_call>>
    /\ UNCHANGED process_chunks_vars

\* get_ssis_data_type of a text
MapSqlType ==
    /\ mapper.call = "sql_type"
    /\ ~mapper.done
    /\ mapper' = [mapper EXCEPT !.done = TRUE,
                                !.ssis_type = get_ssis_data_type(mapper.sql_type)]
    /\ UNCHANGED <<main_result, report_exists, first_run, characteristics, phase_call>>
    /\ UNCHANGED process_chunks_vars

NextMapper ==
    \/ MapColumn
    \/ MapSqlType

\* ------------------------------------------------------------------
\* analyze.py: the Column Characterizer
\* ------------------------------------------------------------------
\* A column (Series) is [dtype, cells].  A cell is [isna, v]: a null (None in
\* an object column, NaN in a numeric one), or the value v, the characters of
\* a string in an object column and an integer in a numeric one.  A float
\* result is [nan, num, den]: nan, or the fraction num / den.  min_value and
\* max_value are [none, v]: None, or the number v.
None == [none |-> TRUE, v |-> 0]

Number(v) == [none |-> FALSE, v |-> v]

nan == [nan |-> TRUE, num |-> 0, den |-> 0]

NoneCell == [isna |-> TRUE, v |-> <<>>]

NaNCell == [isna |-> TRUE, v |-> 0]

Value(v) == [isna |-> FALSE, v |-> v]

\* a / b of numpy scalars: nan (and a RuntimeWarning) for 0 / 0
TrueDivide(a, b) == IF b = 0 THEN nan ELSE [nan |-> FALSE, num |-> a, den |-> b]

\* x * k of a float
Times(x, k) == IF x.nan THEN nan ELSE [x EXCEPT !.num = @ * k]

\* col_data.dropna(): the values that are not null, in order
dropna(col_data) ==
    LET cells == col_data.cells
        kept == Pick(cells, {i \in 1..Len(cells) : ~cells[i].isna})
    IN [i \in 1..Len(kept) |-> kept[i].v]

RECURSIVE SeriesSum(_)
SeriesSum(s) == IF s = <<>> THEN 0 ELSE Head(s) + SeriesSum(Tail(s))

SeriesMax(s) == CHOOSE x \in {s[i] : i \in 1..Len(s)} : \A i \in 1..Len(s) : s[i] <= x

SeriesMin(s) == CHOOSE x \in {s[i] : i \in 1..Len(s)} : \A i \in 1..Len(s) : x <= s[i]

\* Series.std(): the sample standard deviation, given by its square; nan for
\* one value
SeriesStd(s) ==
    LET n == Len(s)
        squares == [i \in 1..n |-> s[i] * s[i]]
    IN TrueDivide(n * SeriesSum(squares) - SeriesSum(s) * SeriesSum(s), n * (n - 1))

\* pd.api.types.is_numeric_dtype
is_numeric_dtype(dtype) == dtype \in IntDtypes \cup FloatDtypes \cup {"bool"}

\* analyze_column_characteristics(df, column) of col_data = df[column];
\* memory_usage_mb, the size of the column in the interpreter, is left out
analyze_column_characteristics(col_data) ==
    LET values == dropna(col_data)
        total == Len(col_data.cells)
        null_count == total - Len(values)
        analysis ==
            [dtype |-> col_data.dtype,
             non_null_count |-> Len(values),
             null_count |-> null_count,
             null_percentage |-> Times(TrueDivide(null_count, total), 100),
             unique_count |-> Cardinality({values[i] : i \in 1..Len(values)}),
             max_length |-> 0,
             min_value |-> None,
             max_value |-> None]
    IN IF col_data.dtype = "object"
       THEN LET string_lengths == [i \in 1..Len(values) |-> Len(values[i])]
            IN IF Len(string_lengths) > 0
               THEN [avg_length |-> TrueDivide(SeriesSum(string_lengths), Len(string_lengths)),
                     min_length |-> SeriesMin(string_lengths)]
                    @@ [analysis EXCEPT !.max_length = SeriesMax(string_lengths)]
               ELSE analysis
       ELSE IF is_numeric_dtype(col_data.dtype)
       THEN IF Len(values) > 0
            THEN [mean_value |-> TrueDivide(SeriesSum(values), Len(values)),
                  std_value |-> SeriesStd(values)]
                 @@ [analysis EXCEPT !.min_value = Number(SeriesMin(values)),
                                     !.max_value = Number(SeriesMax(values))]
            ELSE analysis
       ELSE analysis

\* A call of the Column Characterizer on the column col_data
NoColumnCall ==
    [call |-> FALSE, done |-> FALSE, col_data |-> [dtype |-> "", cells |-> <<>>],
     analysis |-> [dtype |-> ""]]

ColumnCharacteristicsCall(col_data) ==
    [NoColumnCall EXCEPT !.call = TRUE, !.col_data = col_data]

Characterize ==
    /\ characteristics.call
    /\ ~characteristics.done
    /\ characteristics' =
          [characteristics EXCEPT
              !.done = TRUE,
              !.analysis = analyze_column_characteristics(characteristics.col_data)]
    /\ UNCHANGED <<main_result, report_exists, mapper, first_run, phase_call>>
    /\ UNCHANGED process_chunks_vars

NextCharacterizer == Characterize

\* ------------------------------------------------------------------
\* preprocess.py: one phase applied to a window of its own
\* ------------------------------------------------------------------
\* A call of a phase on the window df: out is what the phase yields
NoPhaseCall == [phase |-> "none", done |-> FALSE, df |-> NoChunk, out |-> Ok(NoChunk)]

PhaseCall(phase, df) == [NoPhaseCall EXCEPT !.phase = phase, !.df = df]

CallSqlDataTypes ==
    /\ phase_call.phase = "phase_sql_data_types"
    /\ ~phase_call.done
    /\ phase_call' = [phase_call EXCEPT !.done = TRUE,
                                        !.out = phase_sql_data_types(phase_call.df)]
    /\ UNCHANGED <<main_result, report_exists, mapper, first_run, characteristics>>
    /\ UNCHANGED process_chunks_vars

CallStandardizeColumns ==
    /\ phase_call.phase = "phase_standardize_columns"
    /\ ~phase_call.done
    /\ phase_call' = [phase_call EXCEPT !.done = TRUE,
                                        !.out = Ok(phase_standardize_columns(phase_call.df))]
    /\ UNCHANGED <<main_result, report_exists, mapper, first_run, characteristics>>
    /\ UNCHANGED process_chunks_vars

CallValidateClean ==
    /\ phase_call.phase = "phase_validate_clean"
    /\ ~phase_call.done
    /\ phase_call' = [phase_call EXCEPT !.done = TRUE,
                                        !.out = Ok(phase_validate_clean(phase_call.df))]
    /\ UNCHANGED <<main_result, report_exists, mapper, first_run, characteristics>>
    /\ UNCHANGED process_chunks_vars

NextPhase ==
    \/ CallSqlDataTypes
    \/ CallStandardizeColumns
    \/ CallValidateClean

\* ------------------------------------------------------------------
\* Inputs of a run
\* ------------------------------------------------------------------
\* the default date_cutoff "2018-01-01", a later one with a time of day, and a
\* text that is no date
CutoffDefault == TimestampText(2018, 1, 1, 0, 0, 0)

CutoffMidday == TimestampText(2018, 7, 15, 12, 0, 0)

CutoffTexts == {CutoffDefault, NoTimestamp}

\* an output file left by an earlier run
StaleFile ==
    [exists |-> TRUE,
     lines |-> << [header |-> TRUE, cells |-> <<SEVERITY>>, label |-> 0 - 1],
                  [header |-> FALSE, cells |-> <<4>>, label |-> 0] >>]

\* the cell of a latitude, 34.1234567
SomeLat == FloatCell(341234567)

\* a severity outside the 32-bit range, 2^32 + 1
WideSeverity == Wide(2, 1)

\* records of a file with the columns ID, Severity, Start_Time, Start_Lat
RecordColumns == <<ID, Severity, Start_Time, Start_Lat>>

Record(sev, time, lat) == <<TextCell(NoTimestamp), IntCell(sev), TextCell(time), lat>>

Sev(n) == WideOf(n)

RecordKinds ==
    { Record(Sev(2), TimestampText(2017, 12, 31, 23, 59, 59), SomeLat),
      Record(Sev(3), TimestampText(2018, 1, 1, 0, 0, 0), SomeLat),
      Record(Sev(5), TimestampText(2018, 6, 2, 10, 30, 0), SomeLat),
      Record(Sev(2), NoTimestamp, SomeLat),
      Record(Sev(1), TimestampText(2019, 3, 4, 8, 0, 0), TextCell(NoTimestamp)),
      Record(WideSeverity, TimestampText(2018, 2, 3, 4, 5, 6), SomeLat) }

\* the same file without the column at position c
WithoutColumn(file, c) ==
    [columns |-> Pick(file.columns, (1..Len(file.columns)) \ {c}),
     rows |-> [r \in 1..Len(file.rows) |->
                 Pick(file.rows[r], (1..Len(file.columns)) \ {c})]]

SeqsUpTo(S, n) == UNION {[1..k -> S] : k \in 1..n}

\* input files: with and without the Start_Time column
InputFiles ==
    LET full == {[columns |-> RecordColumns, rows |-> rs] : rs \in SeqsUpTo(RecordKinds, MaxRows)}
    IN full \cup {WithoutColumn(f, IndexOf(Start_Time, RecordColumns)) : f \in full}

NoInput == [columns |-> <<>>, rows |-> <<>>]

InitRun ==
    /\ pc = "start"
    /\ output_before \in {NoFile, StaleFile}
    /\ output_file = output_before
    /\ reader_pos = 0
    /\ chunk_num = 0
    /\ chunk = NoChunk
    /\ initial_rows = 0
    /\ first_chunk = TRUE
    /\ stats = NewStats
    /\ result = "running"
    /\ main_result = "running"
    /\ report_exists = FALSE
    /\ first_run = NoEarlierRun

Init ==
    /\ InitRun
    /\ mapper = NoCall
    /\ characteristics = NoColumnCall
    /\ phase_call = NoPhaseCall
    /\ input_exists \in BOOLEAN
    /\ IF input_exists
       THEN /\ input_file \in InputFiles
            /\ chunk_size \in 1..MaxChunkSize
            /\ date_cutoff \in CutoffTexts
       ELSE /\ input_file = NoInput
            /\ chunk_size = 1
            /\ date_cutoff = CutoffDefault

Spec == Init /\ [][Next]_vars

\* every calendar day of 2017..MaxYear, first and last second, the days that
\* no month has, and a text that is no timestamp
TimeTexts ==
    {TimestampText(y, m, d, t[1], t[2], t[3]) :
        y \in 2017..MaxYear, m \in 1..12, d \in 1..31,
        t \in {<<0, 0, 0>>, <<23, 59, 59>>}}
    \cup {NoTimestamp}

\* a record of any time before a record that every cutoff keeps, in one
\* window or in two; and the same file without its Start_Time column
TimeFiles ==
    LET kept == Record(Sev(3), TimestampText(2018, 12, 31, 23, 59, 59), SomeLat)
        files == {[columns |-> RecordColumns, rows |-> <<Record(Sev(2), t, SomeLat), kept>>]
                  : t \in TimeTexts}
    IN files \cup {WithoutColumn(f, IndexOf(Start_Time, RecordColumns)) : f \in files}

InitTime ==
    /\ InitRun
    /\ mapper = NoCall
    /\ characteristics = NoColumnCall
    /\ phase_call = NoPhaseCall
    /\ output_before = NoFile
    /\ input_exists \in BOOLEAN
    /\ IF input_exists
       THEN /\ input_file \in TimeFiles
            /\ chunk_size \in 1..2
            /\ date_cutoff \in {CutoffDefault, CutoffMidday, NoTimestamp}
       ELSE /\ input_file = NoInput
            /\ chunk_size = 1
            /\ date_cutoff = CutoffDefault

SpecTime == InitTime /\ [][Next]_vars

\* records of a file with start and end timestamps, both coordinates and a
\* string column.  A string cell is the sequence of its characters; an empty
\* cell (read as NaN) is not among them.
FieldColumns == <<Start_Time, End_Time, Severity, Start_Lat, Start_Lng, City>>

FieldRecord(start, end, sev, lat, lng, city) ==
    <<TextCell(start), TextCell(end), IntCell(Sev(sev)), FloatCell(lat), FloatCell(lng),
      TextCell(city)>>

\* 330 seconds long, 34.1234567 / -118.1234565, "LA";
\* ending before it starts, 34.5 / -118.25, " LA";
\* before every cutoff, 34.1234565 / -118.1234575, "LA ";
\* ending when it starts, 0.00000049 / -0.0000005, "none";
\* a day long, 34.12345 / -118.00005, "Unknown"
FieldRecords ==
    { FieldRecord(TimestampText(2018, 3, 1, 10, 0, 0), TimestampText(2018, 3, 1, 10, 5, 30),
                  2, 341234567, 0 - 1181234565, <<"L", "A">>),
      FieldRecord(TimestampText(2019, 5, 5, 8, 0, 0), TimestampText(2019, 5, 5, 7, 0, 0),
                  3, 345000000, 0 - 1182500000, <<" ", "L", "A">>),
      FieldRecord(TimestampText(2017, 6, 1, 12, 0, 0), TimestampText(2017, 6, 1, 13, 0, 0),
                  2, 341234565, 0 - 1181234575, <<"L", "A", " ">>),
      FieldRecord(TimestampText(2018, 1, 1, 0, 0, 0), TimestampText(2018, 1, 1, 0, 0, 0),
                  1, 4, 0 - 5, <<"n", "o", "n", "e">>),
      FieldRecord(TimestampText(2020, 2, 29, 23, 0, 0), TimestampText(2020, 3, 1, 23, 0, 0),
                  4, 341234500, 0 - 1180000500, <<"U", "n", "k", "n", "o", "w", "n">>) }

FieldFiles == {[columns |-> FieldColumns, rows |-> rs] : rs \in SeqsUpTo(FieldRecords, MaxRows)}

InitFields ==
    /\ InitRun
    /\ mapper = NoCall
    /\ characteristics = NoColumnCall
    /\ phase_call = NoPhaseCall
    /\ input_exists \in BOOLEAN
    /\ IF input_exists
       THEN /\ input_file \in FieldFiles
            /\ chunk_size \in 1..MaxChunkSize
            /\ date_cutoff \in CutoffTexts
       ELSE /\ input_file = NoInput
            /\ chunk_size = 1
            /\ date_cutoff = CutoffDefault

SpecFields == InitFields /\ [][Next]_vars

\* two calls of process_chunks, one after the other, on files of records
\* before the cutoff, at the cutoff and of a severity that is not allowed
RerunFiles ==
    {[columns |-> RecordColumns, rows |-> rs] :
        rs \in SeqsUpTo({ Record(Sev(2), TimestampText(2017, 12, 31, 23, 59, 59), SomeLat),
                          Record(Sev(3), TimestampText(2018, 1, 1, 0, 0, 0), SomeLat),
                          Record(Sev(5), TimestampText(2018, 6, 2, 10, 30, 0), SomeLat) },
                        MaxRows)}

InitRerun ==
    /\ InitRun
    /\ mapper = NoCall
    /\ characteristics = NoColumnCall
    /\ phase_call = NoPhaseCall
    /\ input_exists \in BOOLEAN
    /\ IF input_exists
       THEN /\ input_file \in RerunFiles
            /\ chunk_size \in 1..MaxChunkSize
            /\ date_cutoff \in CutoffTexts
       ELSE /\ input_file = NoInput
            /\ chunk_size = 1
            /\ date_cutoff = CutoffDefault

SpecRerun == InitRerun /\ [][NextRerun]_vars

\* main, for the runs of Init
SpecMain == Init /\ [][NextMain]_vars

\* the descriptions of columns the Type Mapper is called with: every dtype
\* it names, two it does not name, and the lengths at and next to each
\* breakpoint of the NVARCHAR ladders
PandasDtypes ==
    {"object", "string", "int8", "int16", "int32", "int64", "bool", "float32",
     "float64", "category", "datetime64[ns]", "timedelta64[ns]", "uint8", "complex128"}

MapperNames ==
    {boolean_columns[i] : i \in 1..Len(boolean_columns)}
    \cup {IS_WEEKEND, DATE, LATITUDE, LONGITUDE, DURATION, SEVERITY, CITY, YEAR}
    \cup { <<"I", "s", "_", "W", "e", "e", "k", "e", "n", "d">>,    \* Is_Weekend
           <<"C", "r", "o", "s", "s", "i", "n", "g">>,    \* Crossing
           <<"c", "r", "o", "s", "s", "i", "n", "g">>,    \* crossing
           <<"E", "N", "D", "_", "L", "A", "T">>,    \* END_LAT
           <<"P", "L", "A", "T", "F", "O", "R", "M">> }    \* PLATFORM

Lengths == {0, 1, 50, 51, 100, 101, 255, 256, 1000, 1001, 4000, 4001}

\* texts get_ssis_data_type is called with: the keys of its table and texts
\* that are no key
SqlTypeTexts ==
    DOMAIN ssis_mapping \cup {"", "bit", "NVARCHAR(500)", "DECIMAL(10,2)", "GEOGRAPHY", "None"}

MapperCalls ==
    {ColumnCall(d, n, l) : d \in PandasDtypes, n \in MapperNames, l \in Lengths}
    \cup {SqlTypeCall(t) : t \in SqlTypeTexts}

InitMapper ==
    /\ InitRun
    /\ output_before = NoFile
    /\ input_exists = FALSE
    /\ input_file = NoInput
    /\ chunk_size = 1
    /\ date_cutoff = CutoffDefault
    /\ mapper \in MapperCalls
    /\ characteristics = NoColumnCall
    /\ phase_call = NoPhaseCall

SpecMapper == InitMapper /\ [][NextMapper]_vars

\* the columns the Column Characterizer is called with: object columns of
\* strings, float64 columns, both with nulls, int64 columns and datetime
\* columns, of 0 to MaxRows cells
TextCells == {NoneCell, Value(<<"a">>), Value(<<"a", "b", "c">>)}

NumberCells == {NaNCell, Value(1), Value(5)}

ColumnsOf(dtype, cells) ==
    {[dtype |-> dtype, cells |-> s] : s \in {<<>>} \cup SeqsUpTo(cells, MaxRows)}

Columns ==
    ColumnsOf("object", TextCells) \cup ColumnsOf("float64", NumberCells)
    \cup ColumnsOf("int64", NumberCells \ {NaNCell})
    \cup ColumnsOf("datetime64[ns]", {NaNCell, Value(1)})

InitCharacterizer ==
    /\ InitRun
    /\ output_before = NoFile
    /\ input_exists = FALSE
    /\ input_file = NoInput
    /\ chunk_size = 1
    /\ date_cutoff = CutoffDefault
    /\ mapper = NoCall
    /\ phase_call = NoPhaseCall
    /\ characteristics \in {ColumnCharacteristicsCall(col) : col \in Columns}

SpecCharacterizer == InitCharacterizer /\ [][NextCharacterizer]_vars

\* the windows the phases are called with on their own
Window(columns, dtypes, rows) ==
    [columns |-> columns, dtypes |-> dtypes,
     index |-> [i \in 1..Len(rows) |-> i - 1], rows |-> rows]

\* column names as they come: mixed case, units in parentheses, white space,
\* underscores at the ends and in runs
RawNames ==
    { <<"S", "t", "a", "r", "t", "_", "L", "a", "t">>,
      <<"s", "t", "a", "r", "t", "_", "l", "n", "g">>,
      <<"W", "i", "n", "d", "_", "S", "p", "e", "e", "d", "(", "m", "p", "h", ")">>,
      <<" ", "W", "i", "n", "d", " ", " ", "C", "h", "i", "l", "l", " ", "(", "F", ")", " ">>,
      <<"_", "x", "_", "_", "y", "_">>,
      <<"a", "(", "b", "(", "c", ")", "d", ")">>,
      <<"(", "x", ")", "_">>,
      <<"A", " ", ")", "(", "B">>,
      <<"T", "e", "m", "p", "\t", "(", "F", ")", "_">>,
      <<"a", " ", "_">>,
      <<"_", " ", "(", ")", "a">>,
      <<"C", "i", "t", "y">> }

NamingWindows ==
    {Window(<<a>>, <<"int32">>, << <<1>> >>) : a \in RawNames}
    \cup {Window(<<a, b>>, <<"int32", "int32">>, << <<1, 2>> >>) :
             a \in RawNames, b \in RawNames}

\* names with SEVERITY in them
Severity_Code == <<"S", "e", "v", "e", "r", "i", "t", "y", "_", "C", "o", "d", "e">>

SeverityNames ==
    {Severity, SEVERITY, Severity_Code,
     <<"m", "a", "x", " ", "s", "e", "v", "e", "r", "i", "t", "y">>}

\* values of a severity column: in and next to 1..4, and 2^32 + 1
SeverityCells == {WideOf(0), WideOf(1), WideOf(4), WideOf(5), Wide(2, 1)}

SeverityWindows ==
    {Window(<<a>>, <<"int64">>, [r \in 1..Len(s) |-> <<s[r]>>]) :
        a \in SeverityNames \cup {City}, s \in SeqsUpTo(SeverityCells, MaxRows)}
    \cup {Window(<<City, a>>, <<"int64", "int64">>,
                 [r \in 1..Len(s) |-> <<WideOf(r), s[r]>>]) :
             a \in SeverityNames, s \in SeqsUpTo(SeverityCells, MaxChunkSize)}
    \cup {Window(<<Severity, Severity_Code>>, <<"int64", "int64">>,
                 [r \in 1..Len(s) |-> <<s[r], WideOf(9)>>]) :
             s \in SeqsUpTo(SeverityCells, MaxChunkSize)}

\* a severity column of floats: 2.0 and 2.5
FloatSeverityWindows ==
    {Window(<<Severity>>, <<"float64">>, [r \in 1..Len(s) |-> <<s[r]>>]) :
        s \in SeqsUpTo({2 * FloatUnit, 25 * (FloatUnit \div 10)}, MaxChunkSize)}

\* integer columns for the narrowing of phase 4: values within 32 bits,
\* 2^31 + 5 and 2^32 + 1
WideCells == {WideOf(3), Wide(1, 5), Wide(2, 1)}

Int64Windows ==
    {Window(<<a>>, <<"int64">>, [r \in 1..Len(s) |-> <<s[r]>>]) :
        a \in {Severity, DURATION}, s \in SeqsUpTo(WideCells, MaxChunkSize)}
    \cup {Window(<<YEAR, HOUR>>, <<"int64", "int64">>, << <<WideOf(y), WideOf(23)>> >>) :
             y \in 2016..MaxYear}

Int32Windows ==
    {Window(<<a>>, <<"int32">>, [r \in 1..Len(s) |-> <<s[r]>>]) :
        a \in {Severity, DURATION}, s \in SeqsUpTo({7, 0 - 3}, MaxChunkSize)}

PhaseCallsOf(phase, windows) == {PhaseCall(phase, df) : df \in windows}

InitPhase ==
    /\ InitRun
    /\ output_before = NoFile
    /\ input_exists = FALSE
    /\ input_file = NoInput
    /\ chunk_size = 1
    /\ date_cutoff = CutoffDefault
    /\ mapper = NoCall
    /\ characteristics = NoColumnCall
    /\ \/ phase_call \in PhaseCallsOf("phase_sql_data_types", Int64Windows)
       \/ phase_call \in PhaseCallsOf("phase_sql_data_types", Int32Windows)
       \/ phase_call \in PhaseCallsOf("phase_standardize_columns", NamingWindows)
       \/ phase_call \in PhaseCallsOf("phase_validate_clean", SeverityWindows)
       \/ phase_call \in PhaseCallsOf("phase_validate_clean", FloatSeverityWindows)

SpecPhase == InitPhase /\ [][NextPhase]_vars

\* ------------------------------------------------------------------
\* What the run is compared with
\* ------------------------------------------------------------------
\* the number of windows the reader yields for the input file
WindowsInFile == (Len(input_file.rows) + chunk_size - 1) \div chunk_size

InputHasColumn(col) == InSeq(col, input_file.columns)

\* the cell of the column col of the input record with index label l
InputCell(l, col) == input_file.rows[l + 1][IndexOf(col, input_file.columns)]

\* the data lines of the output file
OutputDataLines ==
    IF output_file.exists
    THEN Pick(output_file.lines, {i \in 1..Len(output_file.lines) : ~output_file.lines[i].header})
    ELSE <<>>

OutputHeaderLines ==
    IF output_file.exists
    THEN {i \in 1..Len(output_file.lines) : output_file.lines[i].header}
    ELSE {}

\* a timestamp text read as a calendar time, field by field: t is not before c
TextNotBefore(t, c) ==
    LET a == <<t.y, t.m, t.d, t.h, t.mi, t.s>>
        b == <<c.y, c.m, c.d, c.h, c.mi, c.s>>
    IN \/ a = b
       \/ \E i \in 1..6 : a[i] > b[i] /\ \A j \in 1..(i - 1) : a[j] = b[j]

\* the day of the week of a calendar date by Zeller's congruence:
\* 0 = Saturday, 1 = Sunday, 2 = Monday, ...
Zeller(y, m, d) ==
    LET mm == IF m <= 2 THEN m + 12 ELSE m
        yy == IF m <= 2 THEN y - 1 ELSE y
        k == yy % 100
        j == yy \div 100
    IN (d + (13 * (mm + 1)) \div 5 + k + k \div 4 + j \div 4 + 5 * j) % 7

\* the input record with label l is to be kept: its start timestamp is a
\* timestamp not before the cutoff (when the file has the column) and its
\* severity is one of 1..4
KeptRecord(l) ==
    /\ InputHasColumn(Start_Time) =>
          LET t == InputCell(l, Start_Time).v
          IN ValidTimestampText(t) /\ TextNotBefore(t, date_cutoff)
    /\ InputCell(l, Severity).v \in {WideOf(1), WideOf(2), WideOf(3), WideOf(4)}

KeptLabels == Pick([i \in 1..Len(input_file.rows) |-> i - 1],
                   {i \in 1..Len(input_file.rows) : KeptRecord(i - 1)})

OutputLabels == [i \in 1..Len(OutputDataLines) |-> OutputDataLines[i].label]

ReturnedStats == pc = "returned" /\ result = "stats"

\* the run is past the removal of the earlier output file
Started == pc # "start" /\ input_exists

\* ------------------------------------------------------------------
\* C1: at every point of a run of process_chunks, and in the statistics it
\* returns, total_rows_output <= total_rows_input.
\* ------------------------------------------------------------------
C1_OutputRowsAtMostInputRows == stats.total_rows_output <= stats.total_rows_input

\* a run returned statistics with rows written and rows filtered out
C1_Witness ==
    /\ ReturnedStats
    /\ stats.total_rows_output > 0
    /\ stats.total_rows_output < stats.total_rows_input

\* ------------------------------------------------------------------
\* C2: in the returned statistics chunks_processed is the number of windows
\* read from the input, windows that are empty after the date filter included.
\* ------------------------------------------------------------------
C2_ChunksProcessedCountsEveryWindow ==
    ReturnedStats => stats.chunks_processed = WindowsInFile

\* ------------------------------------------------------------------
\* C3: in the returned statistics total_rows_input is the number of data
\* records of the input file, those of windows that are empty after the date
\* filter included.
\* ------------------------------------------------------------------
C3_RowsInputCountsEveryRecord ==
    ReturnedStats => stats.total_rows_input = Len(input_file.rows)

\* ------------------------------------------------------------------
\* C4: after a run that returns statistics the output file holds exactly the
\* input records whose start timestamp is not before the cutoff and whose
\* severity is allowed, in input order, and total_rows_output is the number
\* of data rows of the output file.
\* ------------------------------------------------------------------
C4_OutputIsTheKeptRecords ==
    ReturnedStats =>
        /\ OutputLabels = KeptLabels
        /\ stats.total_rows_output = Len(OutputDataLines)

\* ------------------------------------------------------------------
\* C5: the output file is created with its header by the first window that
\* is written, and later windows are appended without header: the file has
\* one header line, its first line.
\* ------------------------------------------------------------------
C5_OneHeaderLineFirst ==
    Started =>
        /\ output_file.exists <=> ~first_chunk
        /\ output_file.exists => OutputHeaderLines = {1}

\* two windows were written to the output file
C5_Witness ==
    /\ ReturnedStats
    /\ chunk_size = 1
    /\ Len(OutputDataLines) >= 2

\* ------------------------------------------------------------------
\* C6: when a phase raises for a window, process_chunks returns None at once:
\* the window is not written, no further window is read and nothing happens
\* after the return.
\* ------------------------------------------------------------------
C6_PhaseFailureAbortsRun ==
    [][/\ (pc = "phases" /\ Phases.outcome = "raised") =>
            /\ pc' = "returned"
            /\ result' = "None"
            /\ output_file' = output_file
            /\ reader_pos' = reader_pos
            /\ chunk_num' = chunk_num
       /\ pc = "returned" => UNCHANGED vars]_vars

\* a phase raised for a window after the first, with a window written
\* before it and records left unread
C6_Witness ==
    /\ pc = "returned"
    /\ result = "None"
    /\ chunk_num >= 2
    /\ output_file.exists
    /\ reader_pos < Len(input_file.rows)

\* ------------------------------------------------------------------
\* C7: when the input file does not exist, process_chunks returns None and
\* leaves the output path as it was.
\* ------------------------------------------------------------------
C7_MissingInputLeavesOutput ==
    (pc = "returned" /\ ~input_exists) =>
        /\ result = "None"
        /\ output_file = output_before
        /\ chunk_num = 0

\* the run returned for a missing input, with an output file of an earlier run
C7_Witness ==
    /\ pc = "returned"
    /\ ~input_exists
    /\ output_before.exists

\* the window the date filter is applied to, and what the filter yields
WindowForFilter == phase_delete_columns(chunk, DefaultColumnsToDelete)

FilteredWindow == phase_filter_date(WindowForFilter, date_cutoff)

\* ------------------------------------------------------------------
\* C8: phase_filter_date keeps exactly the records whose start timestamp is
\* a timestamp not before the cutoff (the cutoff itself is kept); a window
\* without the timestamp column is returned unchanged.
\* ------------------------------------------------------------------
C8_DateFilterKeepsFromCutoff ==
    (pc = "phases" /\ ValidTimestampText(date_cutoff)) =>
        /\ ~FilteredWindow.exc
        /\ IF HasColumn(chunk, Start_Time)
           THEN FilteredWindow.df.index =
                    Pick(chunk.index,
                         {r \in 1..NRows(chunk) :
                             LET t == InputCell(chunk.index[r], Start_Time).v
                             IN ValidTimestampText(t) /\ TextNotBefore(t, date_cutoff)})
           ELSE FilteredWindow.df = WindowForFilter

\* a window of two records is filtered: the one at the cutoff is kept
C8_Witness ==
    /\ pc = "phases"
    /\ ValidTimestampText(date_cutoff)
    /\ HasColumn(chunk, Start_Time)
    /\ NRows(chunk) = 2
    /\ InputCell(chunk.index[1], Start_Time).v = date_cutoff
    /\ FilteredWindow.df.index = chunk.index

\* ------------------------------------------------------------------
\* C9: no window written by process_chunks carries the source timestamp
\* column: the output header has neither Start_Time nor its standardized
\* name.
\* ------------------------------------------------------------------
C9_NoSourceTimestampInOutput ==
    (Started /\ output_file.exists) =>
        \A i \in OutputHeaderLines :
            \A c \in 1..Len(output_file.lines[i].cells) :
                Upper(output_file.lines[i].cells[c]) # START_TIME

\* a window of a file with the Start_Time column was written, with the
\* derived time columns
C9_Witness ==
    /\ Started
    /\ InputHasColumn(Start_Time)
    /\ output_file.exists
    /\ Len(OutputDataLines) >= 1
    /\ InSeq(YEAR, output_file.lines[1].cells)

\* ------------------------------------------------------------------
\* C10: for every record written, IS_WEEKEND is 1 if the day of the week of
\* its start timestamp is Saturday or Sunday, and 0 otherwise.
\* ------------------------------------------------------------------
C10_WeekendIffSaturdayOrSunday ==
    (Started /\ output_file.exists /\ InputHasColumn(Start_Time)) =>
        /\ InSeq(IS_WEEKEND, output_file.lines[1].cells)
        /\ \A i \in 1..Len(OutputDataLines) :
              LET line == OutputDataLines[i]
                  t == InputCell(line.label, Start_Time).v
                  w == line.cells[IndexOf(IS_WEEKEND, output_file.lines[1].cells)]
              IN w = (IF Zeller(t.y, t.m, t.d) \in {0, 1} THEN 1 ELSE 0)

\* a record of a Sunday was written with IS_WEEKEND = 1
C10_Witness ==
    /\ Started
    /\ output_file.exists
    /\ InputHasColumn(Start_Time)
    /\ \E i \in 1..Len(OutputDataLines) :
          LET line == OutputDataLines[i]
              t == InputCell(line.label, Start_Time).v
          IN /\ Zeller(t.y, t.m, t.d) = 1
             /\ line.cells[IndexOf(IS_WEEKEND, output_file.lines[1].cells)] = 1

\* the cell of the column col in a data line of the output file
OutputCell(line, col) == line.cells[IndexOf(col, output_file.lines[1].cells)]

\* the quarter of each month of the year
QuarterOfMonth == <<1, 1, 1, 2, 2, 2, 3, 3, 3, 4, 4, 4>>

\* ------------------------------------------------------------------
\* C11: for every record written, YEAR, MONTH, DAY and HOUR are the year,
\* month, day and hour of its start timestamp as the input file gives them
\* (the timestamp rebuilt from them is the source truncated to the hour)
\* and QUARTER is the quarter of MONTH, ((MONTH - 1) div 3) + 1: the
\* narrowing to 16 and 8 bits loses nothing.
\* ------------------------------------------------------------------
C11_TimeFeaturesMatchSource ==
    (Started /\ output_file.exists /\ InputHasColumn(Start_Time)) =>
        /\ \A col \in {YEAR, QUARTER, MONTH, DAY, HOUR} :
              InSeq(col, output_file.lines[1].cells)
        /\ \A i \in 1..Len(OutputDataLines) :
              LET line == OutputDataLines[i]
                  t == InputCell(line.label, Start_Time).v
              IN /\ OutputCell(line, YEAR) = t.y
                 /\ OutputCell(line, MONTH) = t.m
                 /\ OutputCell(line, DAY) = t.d
                 /\ OutputCell(line, HOUR) = t.h
                 /\ OutputCell(line, QUARTER) = QuarterOfMonth[t.m]
                 /\ OutputCell(line, QUARTER) = (OutputCell(line, MONTH) - 1) \div 3 + 1

\* a record of the last hour of a 29 February was written, and one of a
\* December: quarter 4
C11_Witness ==
    /\ Started
    /\ output_file.exists
    /\ InputHasColumn(Start_Time)
    /\ \E i \in 1..Len(OutputDataLines) :
          LET t == InputCell(OutputDataLines[i].label, Start_Time).v
          IN t.m = 2 /\ t.d = 29 /\ t.h = 23 /\ OutputCell(OutputDataLines[i], DAY) = 29
    /\ \E i \in 1..Len(OutputDataLines) :
          LET t == InputCell(OutputDataLines[i].label, Start_Time).v
          IN t.m = 12 /\ OutputCell(OutputDataLines[i], QUARTER) = 4

\* the whole seconds from the timestamp text a to the timestamp text b
SecondsBetween(a, b) == ToDatetimeCoerce(b).sec - ToDatetimeCoerce(a).sec

\* ------------------------------------------------------------------
\* C12: when the input has both the start and the end timestamp column,
\* every written record carries a column DURATION, the whole seconds from
\* start to end and 0 when the end is before the start, computed before
\* End_Time is dropped.
\* ------------------------------------------------------------------
C12_DurationInOutput ==
    (Started /\ output_file.exists /\ InputHasColumn(Start_Time) /\ InputHasColumn(End_Time)) =>
        /\ InSeq(DURATION, output_file.lines[1].cells)
        /\ \A i \in 1..Len(OutputDataLines) :
              LET line == OutputDataLines[i]
                  d == SecondsBetween(InputCell(line.label, Start_Time).v,
                                      InputCell(line.label, End_Time).v)
              IN OutputCell(line, DURATION) = (IF d < 0 THEN 0 ELSE d)

UnknownText == <<"U", "n", "k", "n", "o", "w", "n">>

\* a text that stands for no value: none, null or nan in any case, or blank
NoneLike(text) ==
    Upper(StripChars(text, WhiteChars)) \in
        {<<>>, <<"N", "O", "N", "E">>, <<"N", "U", "L", "L">>, <<"N", "A", "N">>}

\* ------------------------------------------------------------------
\* C13: every value of a string column in the output is "Unknown" or a
\* text without leading or trailing whitespace, and a none-like value of
\* the input is written as "Unknown".
\* ------------------------------------------------------------------
C13_StringsTrimmedOrUnknown ==
    (Started /\ output_file.exists /\ InputHasColumn(City)) =>
        \A i \in 1..Len(OutputDataLines) :
            LET line == OutputDataLines[i]
                v == OutputCell(line, CITY)
            IN /\ \/ v = UnknownText
                  \/ v # <<>> /\ v[1] \notin WhiteChars /\ v[Len(v)] \notin WhiteChars
               /\ NoneLike(InputCell(line.label, City).v) => v = UnknownText

\* the call of the Type Mapper for a column has returned
ColumnMapped == mapper.call = "column" /\ mapper.done

\* the names of the flag set
FlagNames == {boolean_columns[i] : i \in 1..Len(boolean_columns)} \cup {IS_WEEKEND}

\* the source types of a flag column: integer, float, boolean, string
FlagSourceDtypes ==
    {"int8", "int16", "int32", "int64", "float32", "float64", "bool", "object", "string"}

\* ------------------------------------------------------------------
\* C14: a column whose name, in any case, is in the flag set is typed BIT by
\* the Type Mapper whatever its source type (integer, float, boolean or
\* string) and observed length.
\* ------------------------------------------------------------------
C14_FlagColumnsAreBit ==
    (/\ ColumnMapped
     /\ Upper(mapper.column_name) \in FlagNames
     /\ mapper.pandas_dtype \in FlagSourceDtypes) => mapper.sql_type = "BIT"

\* the fixed-point value nearest to v with 6 decimals: a multiple of
\* FloatUnit / 10^6 at most half of it away from v
RoundedTo6(out, v) ==
    LET q == FloatUnit \div 10 ^ 6
        diff == IF out >= v THEN out - v ELSE v - out
    IN out % q = 0 /\ 2 * diff <= q

\* ------------------------------------------------------------------
\* C15: a float column Start_Lat (Start_Lng) is written as the column
\* LATITUDE (LONGITUDE) with every value rounded to 6 decimals, not to the 4
\* of other float columns, and the Type Mapper types that column
\* DECIMAL(9,6).
\* ------------------------------------------------------------------
C15_CoordinatesKeepSixDecimals ==
    (/\ Started
     /\ output_file.exists
     /\ InputHasColumn(Start_Lat)
     /\ InputHasColumn(Start_Lng)) =>
        /\ \A col \in {LATITUDE, LONGITUDE} :
              /\ InSeq(col, output_file.lines[1].cells)
              /\ get_sql_server_type("float64", col, 0) = "DECIMAL(9,6)"
        /\ \A col \in {Start_Lat, Start_Lng, START_LAT, START_LNG} :
              ~InSeq(col, output_file.lines[1].cells)
        /\ \A i \in 1..Len(OutputDataLines) :
              LET line == OutputDataLines[i]
              IN /\ RoundedTo6(OutputCell(line, LATITUDE), InputCell(line.label, Start_Lat).v)
                 /\ RoundedTo6(OutputCell(line, LONGITUDE), InputCell(line.label, Start_Lng).v)

\* the record at 34.1234567 / -118.1234565 was written as 34.123457 and
\* -118.123456 or -118.123457
C15_Witness ==
    /\ Started
    /\ output_file.exists
    /\ \E i \in 1..Len(OutputDataLines) :
          LET line == OutputDataLines[i]
          IN /\ InputCell(line.label, Start_Lat).v = 341234567
             /\ OutputCell(line, LATITUDE) = 341234570
             /\ InputCell(line.label, Start_Lng).v = 0 - 1181234565
             /\ OutputCell(line, LONGITUDE) \in {0 - 1181234560, 0 - 1181234570}

\* a rule of the Type Mapper before the string rules decides by the name
NamedByEarlierRule(name) ==
    \/ Upper(name) = DATE
    \/ \E w \in {LATITUDE, LONGITUDE, LAT, LNG} : Contains(Upper(name), w)
    \/ Upper(name) \in FlagNames

\* the NVARCHAR type of each breakpoint
NvarcharOf ==
    (50 :> "NVARCHAR(50)") @@ (100 :> "NVARCHAR(100)") @@ (255 :> "NVARCHAR(255)")
    @@ (1000 :> "NVARCHAR(1000)") @@ (4000 :> "NVARCHAR(4000)")

\* the type with the smallest breakpoint that holds n characters
SmallestNvarchar(n) ==
    LET fit == {b \in DOMAIN NvarcharOf : b >= n}
    IN IF fit = {} THEN "NVARCHAR(MAX)"
       ELSE NvarcharOf[CHOOSE b \in fit : \A c \in fit : b <= c]

\* ------------------------------------------------------------------
\* C16: a string or category column that no earlier rule decides is typed
\* NVARCHAR(n) with n the smallest of 50, 100, 255, 1000, 4000 that is at
\* least the observed maximum length, and NVARCHAR(MAX) above 4000: the
\* declared width is never below the observed length.
\* ------------------------------------------------------------------
C16_StringWidthHoldsObservedLength ==
    (/\ ColumnMapped
     /\ mapper.pandas_dtype \in {"object", "string", "category"}
     /\ ~NamedByEarlierRule(mapper.column_name)) =>
        mapper.sql_type = SmallestNvarchar(mapper.max_length)

\* the dtypes get_sql_server_type names
RecognizedDtypes ==
    {"object", "string", "int8", "int16", "int32", "int64", "bool", "float32",
     "float64", "category", "datetime64[ns]", "datetime64[ns, UTC]", "timedelta64[ns]"}

\* the SQL Server types get_sql_server_type can return
SqlServerTypes ==
    {"DATE", "DECIMAL(9,6)", "BIT", "NVARCHAR(50)", "NVARCHAR(100)", "NVARCHAR(255)",
     "NVARCHAR(1000)", "NVARCHAR(4000)", "NVARCHAR(MAX)", "TINYINT", "SMALLINT", "INT",
     "BIGINT", "DECIMAL(8,4)", "DATETIME2", "TIME"}

\* ------------------------------------------------------------------
\* C17: both mappers are total.  Every call returns: get_sql_server_type a
\* SQL Server type, NVARCHAR(100) for a source type it does not name (when no
\* rule by name applies); get_ssis_data_type the SSIS type of its table for a
\* key of the table and DT_WSTR(255) for any other text.
\* ------------------------------------------------------------------
C17_MappersAreTotal ==
    /\ (mapper.call = "column" /\ ~mapper.done) => ENABLED MapColumn
    /\ (mapper.call = "sql_type" /\ ~mapper.done) => ENABLED MapSqlType
    /\ ColumnMapped =>
          /\ mapper.sql_type \in SqlServerTypes
          /\ (mapper.pandas_dtype \notin RecognizedDtypes
               /\ ~NamedByEarlierRule(mapper.column_name)) => mapper.sql_type = "NVARCHAR(100)"
    /\ mapper.done =>
          IF mapper.sql_type \in DOMAIN ssis_mapping
          THEN mapper.ssis_type = ssis_mapping[mapper.sql_type]
          ELSE mapper.ssis_type = "DT_WSTR(255)"

\* a column of a dtype the mapper does not name was typed NVARCHAR(100)
C17_Witness ==
    /\ ColumnMapped
    /\ mapper.pandas_dtype = "complex128"
    /\ mapper.column_name = CITY
    /\ mapper.sql_type = "NVARCHAR(100)"
    /\ mapper.ssis_type = "DT_WSTR(100)"

\* ------------------------------------------------------------------
\* C18: whenever process_chunks returns statistics, main returns True and
\* the output file and the report file exist afterwards, also when every
\* record is older than the cutoff.
\* ------------------------------------------------------------------
C18_StatisticsMeanSuccess ==
    (ReturnedStats /\ main_result # "running") =>
        /\ main_result = "True"
        /\ output_file.exists
        /\ report_exists

\* ------------------------------------------------------------------
\* C19: a date_cutoff that is no date is detected before processing begins:
\* no window is read, the output file of an earlier run is not touched, and
\* the run ends without success.
\* ------------------------------------------------------------------
C19_BadCutoffDetectedBeforeProcessing ==
    (input_exists /\ ~ValidTimestampText(date_cutoff)) =>
        /\ chunk_num = 0
        /\ output_file = output_before
        /\ pc = "returned" => result = "None"

\* ------------------------------------------------------------------
\* C20: the output file is rewritten by each run.  After a run that returns
\* statistics and wrote a window, the file holds one header line and then
\* the rows this run wrote, in input order, whatever was at the path before;
\* and a second run on the same input and configuration ends with the same
\* output file and the same statistics as the first.
\* ------------------------------------------------------------------
C20_OutputRewrittenEachRun ==
    /\ (ReturnedStats /\ ~first_chunk) =>
          /\ output_file.exists
          /\ OutputHeaderLines = {1}
          /\ Len(output_file.lines) = 1 + stats.total_rows_output
          /\ \A i \in 1..Len(OutputDataLines) :
                /\ OutputDataLines[i].label \in 0..(Len(input_file.rows) - 1)
                /\ Len(OutputDataLines[i].cells) = Len(output_file.lines[1].cells)
                /\ \A j \in 1..(i - 1) : OutputDataLines[j].label < OutputDataLines[i].label
    /\ (ReturnedStats /\ first_run.done) =>
          /\ output_file = first_run.output_file
          /\ stats = first_run.stats

\* the second run returned, over the file the first run wrote from two
\* windows, the first run having replaced the file of an earlier run
C20_Witness ==
    /\ ReturnedStats
    /\ first_run.done
    /\ output_before.exists
    /\ output_before # StaleFile
    /\ stats.chunks_processed >= 2
    /\ Len(OutputDataLines) >= 2

\* ------------------------------------------------------------------
\* C21: a column named DURATION, in any case, is typed BIGINT by the Type
\* Mapper for every source type and observed length (no rule by name before
\* it matches the name DURATION).
\* ------------------------------------------------------------------
C21_DurationIsBigint ==
    (/\ ColumnMapped
     /\ Upper(mapper.column_name) = DURATION
     /\ ~NamedByEarlierRule(mapper.column_name)) => mapper.sql_type = "BIGINT"

\* the call of the Column Characterizer has returned
Characterized == characteristics.call /\ characteristics.done

\* ------------------------------------------------------------------
\* C22: analyze_column_characteristics never fails on a column with zero
\* values: for a column of no cells the null percentage is 0, and for a
\* column of no non-null value max_length is 0 and min_value and max_value
\* are None.
\* ------------------------------------------------------------------
C22_ZeroValuesAreSafe ==
    /\ (characteristics.call /\ ~characteristics.done) => ENABLED Characterize
    /\ Characterized =>
          LET cells == characteristics.col_data.cells
              analysis == characteristics.analysis
          IN /\ cells = <<>> =>
                   /\ ~analysis.null_percentage.nan
                   /\ analysis.null_percentage.num = 0
             /\ (\A i \in 1..Len(cells) : cells[i].isna) =>
                   /\ analysis.max_length = 0
                   /\ analysis.min_value = None
                   /\ analysis.max_value = None

\* the call of phase_validate_clean has returned
ValidateCleanCalled == phase_call.phase = "phase_validate_clean" /\ phase_call.done

\* the positions of the columns with SEVERITY in their name, in any case
SeverityLike(df) == {c \in 1..NCols(df) : Contains(Upper(df.columns[c]), SEVERITY)}

\* the value v of a column of dtype is one of 1, 2, 3, 4
OneToFour(dtype, v) ==
    IF dtype = "int64" THEN v \in {WideOf(k) : k \in 1..4}
    ELSE IF dtype \in FloatDtypes THEN \E k \in 1..4 : v = k * FloatUnit
    ELSE v \in 1..4

StandardizeCalled == phase_call.phase = "phase_standardize_columns" /\ phase_call.done

\* a is b with some characters left out
RECURSIVE IsSubsequence(_, _)
IsSubsequence(a, b) ==
    IF a = <<>> THEN TRUE
    ELSE IF b = <<>> THEN FALSE
    ELSE IF a[1] = b[1] THEN IsSubsequence(Tail(a), Tail(b))
    ELSE IsSubsequence(a, Tail(b))

\* no lower-case letter, no white space, no "(" with a ")" after it, no two
\* underscores in a row and none at either end
StandardForm(n) ==
    /\ \A i \in 1..Len(n) :
          n[i] \notin {LowerChars[k] : k \in 1..Len(LowerChars)} \cup WhiteChars
    /\ ~\E i, j \in 1..Len(n) : i < j /\ n[i] = "(" /\ n[j] = ")"
    /\ ~\E i \in 1..(Len(n) - 1) : n[i] = "_" /\ n[i + 1] = "_"
    /\ n # <<>> => n[1] # "_" /\ n[Len(n)] # "_"

\* ------------------------------------------------------------------
\* C24: every column name phase_standardize_columns produces has no
\* lower-case letter, no white space, no parenthesized group, no two
\* consecutive underscores and no underscore at either end; START_LAT and
\* START_LNG are renamed LATITUDE and LONGITUDE; the rows and the order of
\* the columns are unchanged.
\* ------------------------------------------------------------------
C24_ColumnNamesStandardized ==
    StandardizeCalled =>
        LET df == phase_call.df
            out == phase_call.out.df
        IN /\ ~phase_call.out.exc
           /\ out.rows = df.rows
           /\ out.index = df.index
           /\ out.dtypes = df.dtypes
           /\ NCols(out) = NCols(df)
           /\ \A c \in 1..NCols(out) :
                 LET n == out.columns[c]
                     upper == Upper(df.columns[c])
                 IN /\ StandardForm(n)
                    /\ n \notin {START_LAT, START_LNG}
                    /\ upper = START_LAT => n = LATITUDE
                    /\ upper = START_LNG => n = LONGITUDE
                    /\ upper \notin {START_LAT, START_LNG} =>
                          IsSubsequence(SelectSeq(n, LAMBDA ch : ch # "_"), upper)

\* the columns ' Wind  Chill (F) ' and 'Start_Lat' came out as WIND_CHILL
\* and LATITUDE
C24_Witness ==
    /\ StandardizeCalled
    /\ phase_call.df.columns =
          << <<" ", "W", "i", "n", "d", " ", " ", "C", "h", "i", "l", "l", " ", "(", "F", ")", " ">>,
             Start_Lat >>
    /\ phase_call.out.df.columns =
          << <<"W", "I", "N", "D", "_", "C", "H", "I", "L", "L">>, LATITUDE >>
    /\ phase_call.out.df.rows = << <<1, 2>> >>

\* the place of a column in the semantic grouping: 1 for the fact measures,
\* 2 for the time dimensions, 3 for the location dimensions, 0 for a column
\* the grouping of which is not used here
ColumnGroup(name) ==
    IF name \in {SEVERITY, DURATION} THEN 1
    ELSE IF name \in {YEAR, QUARTER, MONTH, DAY, HOUR} THEN 2
    ELSE IF name \in {LATITUDE, LONGITUDE, CITY} THEN 3
    ELSE 0

\* ------------------------------------------------------------------
\* C25: the columns of the output are in the order of the semantic
\* grouping: fact measures (severity, duration) before time dimensions,
\* time dimensions before location dimensions.
\* ------------------------------------------------------------------
C25_ColumnsInSemanticOrder ==
    (Started /\ output_file.exists) =>
        LET header == output_file.lines[1].cells
        IN \A i, j \in 1..Len(header) :
              (/\ i < j
               /\ ColumnGroup(header[i]) # 0
               /\ ColumnGroup(header[j]) # 0) =>
                  ColumnGroup(header[i]) <= ColumnGroup(header[j])

\* the call of phase_sql_data_types has returned
SqlDataTypesCalled == phase_call.phase = "phase_sql_data_types" /\ phase_call.done

\* the integer w of a column narrower than 64 bits is the int64 value x
EqualsWide(w, x) ==
    IF w >= 0 THEN x = Wide(0, w)
    ELSE x.q = 0 - 1 /\ (x.r - 2 ^ 30) - 2 ^ 30 = w

\* ------------------------------------------------------------------
\* C26: the integer narrowing of phase 4 preserves values.  For every
\* int32 or int64 column and every value in it, values beyond 32 bits
\* included, the value after phase_sql_data_types is the value before, and a
\* DURATION column stays int64.
\* ------------------------------------------------------------------
C26_NarrowingPreservesValues ==
    SqlDataTypesCalled =>
        LET df == phase_call.df
            out == phase_call.out.df
        IN /\ ~phase_call.out.exc
           /\ \A c \in 1..NCols(df) :
                 /\ (df.columns[c] = DURATION /\ df.dtypes[c] = "int64") =>
                       out.dtypes[c] = "int64"
                 /\ df.dtypes[c] \in {"int32", "int64"} =>
                       \A r \in 1..NRows(df) :
                          LET v == df.rows[r][c]
                              w == out.rows[r][c]
                          IN IF df.dtypes[c] = "int32" THEN w = v
                             ELSE IF out.dtypes[c] = "int64" THEN w = v
                             ELSE EqualsWide(w, v)

\* the window the time-feature phase is applied to in this iteration: the
\* window after the column pruning and the date filter
FilteredChunk ==
    phase_filter_date(phase_delete_columns(chunk, DefaultColumnsToDelete), date_cutoff)

\* the time-feature phase is applied in this iteration: the date filter has
\* not raised and has left rows
TimePhaseApplied == pc = "phases" /\ ~FilteredChunk.exc /\ NRows(FilteredChunk.df) > 0

\* ------------------------------------------------------------------
\* C27: in process_chunks the time-feature phase is only applied to a window
\* whose start timestamps are all parsed and not before the cutoff, since the
\* date filter ran on the window first.  A start timestamp that cannot be
\* parsed never makes the time-feature phase raise or the run fail (with a
\* cutoff that is a date, the run returns statistics); its record is only
\* left out of the output.
\* ------------------------------------------------------------------
C27_TimePhaseAfterDateFilter ==
    /\ TimePhaseApplied =>
          LET df == FilteredChunk.df
          IN /\ HasColumn(df, Start_Time) =>
                   \A r \in 1..NRows(df) :
                      LET ts == df.rows[r][IndexOf(Start_Time, df.columns)]
                      IN ~ts.nat /\ ts.sec >= ToDatetimeCoerce(date_cutoff).sec
             /\ ~phase_create_time_features(df).exc
             /\ Phases.outcome = "ok"
    /\ (pc = "returned" /\ input_exists /\ ValidTimestampText(date_cutoff)) =>
          result = "stats"
    /\ (Started /\ output_file.exists /\ InputHasColumn(Start_Time)) =>
          \A i \in 1..Len(OutputDataLines) :
             ValidTimestampText(InputCell(OutputDataLines[i].label, Start_Time).v)

\* a window of two records, the first with a start time that is no
\* timestamp: the run returned statistics and wrote the second record only
C27_Witness ==
    /\ ReturnedStats
    /\ chunk_size = 2
    /\ InputHasColumn(Start_Time)
    /\ ~ValidTimestampText(InputCell(0, Start_Time).v)
    /\ Len(OutputDataLines) = 1
    /\ OutputDataLines[1].label = 1

\* the SSIS types of the table, by the SQL Server type the Type Mapper
\* returns for a column
SsisTypeOf ==
    [t \in SqlServerTypes |->
        CASE t = "DATE" -> "DT_DBDATE"
          [] t = "DECIMAL(9,6)" -> "DT_NUMERIC(9,6)"
          [] t = "DECIMAL(8,4)" -> "DT_NUMERIC(8,4)"
          [] t = "BIT" -> "DT_BOOL"
          [] t = "TINYINT" -> "DT_UI1"
          [] t = "SMALLINT" -> "DT_I2"
          [] t = "INT" -> "DT_I4"
          [] t = "BIGINT" -> "DT_I8"
          [] t = "NVARCHAR(50)" -> "DT_WSTR(50)"
          [] t = "NVARCHAR(100)" -> "DT_WSTR(100)"
          [] t = "NVARCHAR(255)" -> "DT_WSTR(255)"
          [] t = "NVARCHAR(1000)" -> "DT_WSTR(1000)"
          [] t = "NVARCHAR(4000)" -> "DT_WSTR(4000)"
          [] t = "NVARCHAR(MAX)" -> "DT_NTEXT"
          [] t = "DATETIME2" -> "DT_DBTIMESTAMP2"
          [] t = "TIME" -> "DT_DBTIME"]

\* ------------------------------------------------------------------
\* C28: for every source type, column name and observed length, the type
\* get_sql_server_type returns has an entry of its own in the table of
\* get_ssis_data_type: the SSIS type of a column is never the default
\* DT_WSTR(255) taken for want of an entry.
\* ------------------------------------------------------------------
C28_EveryMappedTypeHasSsisEntry ==
    ColumnMapped =>
        /\ mapper.sql_type \in DOMAIN ssis_mapping
        /\ mapper.sql_type \in SqlServerTypes
        /\ mapper.ssis_type = SsisTypeOf[mapper.sql_type]
        /\ mapper.ssis_type = "DT_WSTR(255)" => mapper.sql_type = "NVARCHAR(255)"

\* an int64 column DURATION was typed BIGINT and DT_I8
C28_Witness ==
    /\ ColumnMapped
    /\ mapper.pandas_dtype = "int64"
    /\ mapper.column_name = DURATION
    /\ mapper.sql_type = "BIGINT"
    /\ mapper.ssis_type = "DT_I8"

\* the date filter leaves no record of the input: the input has the column
\* Start_Time, the cutoff is a date and every start time is before it or is
\* no timestamp
EveryWindowFilteredOut ==
    /\ input_exists
    /\ InputHasColumn(Start_Time)
    /\ ValidTimestampText(date_cutoff)
    /\ \A l \in 0..(Len(input_file.rows) - 1) :
          LET t == InputCell(l, Start_Time).v
          IN ~(ValidTimestampText(t) /\ TextNotBefore(t, date_cutoff))

\* ------------------------------------------------------------------
\* C29: when every window of the input is empty after the date filter,
\* process_chunks returns statistics with total_rows_output = 0, writes
\* nothing, and no file is at the output path afterwards, whether or not one
\* was there before the run.
\* ------------------------------------------------------------------
C29_AllEmptyRunLeavesNoOutput ==
    EveryWindowFilteredOut =>
        /\ Started => ~output_file.exists
        /\ pc = "returned" =>
              /\ result = "stats"
              /\ stats.total_rows_output = 0
              /\ ~output_file.exists

\* two windows, both emptied by the date filter, in a run that found the
\* output file of an earlier run
C29_Witness ==
    /\ EveryWindowFilteredOut
    /\ ReturnedStats
    /\ output_before = StaleFile
    /\ chunk_num >= 2
    /\ stats.total_rows_output = 0
    /\ ~output_file.exists

\* the columns of the output that are no column of the input: the header
\* cells that are not the upper-case name of an input column, with
\* LATITUDE / LONGITUDE standing for START_LAT / START_LNG
AddedColumns ==
    LET header == output_file.lines[1].cells
        from_input == {Upper(input_file.columns[c]) : c \in 1..Len(input_file.columns)}
        source(h) == IF h = LATITUDE THEN START_LAT
                     ELSE IF h = LONGITUDE THEN START_LNG
                     ELSE h
    IN {i \in 1..Len(header) : source(header[i]) \notin from_input}

\* ------------------------------------------------------------------
\* C30: time_features_added is the same constant in every run that returns
\* statistics, and it is the number of columns the time-feature phase adds
\* to a window.
\* ------------------------------------------------------------------
C30_TimeFeaturesAddedCountsColumns ==
    ReturnedStats =>
        /\ stats.time_features_added = NewStats.time_features_added
        /\ (output_file.exists /\ InputHasColumn(Start_Time)) =>
              stats.time_features_added = Cardinality(AddedColumns)

====
